---- MODULE Spec2Model ----
(***************************************************************************)
(* The tablet replica clone task (be/src/olap/task/engine_clone_task.cpp)  *)
(* as a state machine: EngineCloneTask::execute and the functions it       *)
(* calls, one action per step between two blocking calls.                  *)
(***************************************************************************)
EXTENDS Integers, Sequences, FiniteSets, TLC

\* ------------------------------------------------------------------ bounds
\* The longest list of candidate source backends in a clone request.
MaxPeers == 2

\* The most data files in a listing the batch packing is tried on.
MaxDataFiles == 9

\* The most small files in a listing the batch packing is tried on.
MaxSmallFiles == 66

\* The most versions another thread publishes on the tablet while the task runs.
MaxPublished == 1

\* ------------------------------------------------------- program constants
MiB == 2 ^ 20
BATCH_FILE_SIZE == 64 * MiB
BATCH_FILE_NUM == 64
K_INVALID_CUMULATIVE_POINT == -1

\* ----------------------------------------------------------------- status
OK == "OK"
IsOk(st) == st = OK

\* ------------------------------------------------------------------ files
\* A file name is <<directory below the tablet directory, stem, suffix>>.
HDR == <<"", "10001", "hdr">>
D5 == <<"", "rs5_0", "dat">>
D6 == <<"", "rs6_0", "dat">>
BL == <<"", "rs5", "binlog">>
BI == <<"", "rs5", "binlog-index">>
PB == <<"", "rowset_binlog_metas", "pb">>

EndsWith(name, suffix) == name[3] = suffix

\* A directory: whether it exists and, per file name, the file's content
\* (its size and its md5 class).
NoFiles == <<>>
NoDir == [exists |-> FALSE, files |-> NoFiles]
EmptyDir == [exists |-> TRUE, files |-> NoFiles]
FileNames(dir) == DOMAIN dir.files
PutFile(dir, name, content) ==
    [dir EXCEPT !.files = [n \in (DOMAIN dir.files) \cup {name} |->
                              IF n = name THEN content ELSE dir.files[n]]]
DelFiles(dir, names) ==
    [dir EXCEPT !.files = [n \in (DOMAIN dir.files) \ names |-> dir.files[n]]]

\* A remote listing entry.
F(name, size, md5) == [name |-> name, size |-> size, md5 |-> md5]

\* What a source backend may list under <snapshot>/<tablet_id>/<schema_hash>/.
Listings ==
    { <<>>,
      << F(HDR, MiB, 1), F(D5, 10 * MiB, 1) >>,
      << F(D5, 10 * MiB, 1), F(HDR, MiB, 1), F(D6, 64 * MiB, 1) >>,
      << F(D5, 10 * MiB, 2), F(D6, 10 * MiB, 1) >>,
      << F(BL, MiB, 1), F(PB, MiB, 1), F(HDR, MiB, 1), F(BI, MiB, 1) >>,
      << F(BL, MiB, 2), F(PB, 0, 1), F(HDR, MiB, 1), F(D6, MiB, 1) >> }

\* --------------------------------------------------------------- versions
\* A rowset is <<first version, last version, origin>>; a rowset meta of a header and
\* a missed version are <<first version, last version>>.
RECURSIVE MaxContinuous(_, _)
MaxContinuous(rowsets, upto) ==
    IF \E v \in rowsets : v[1] = upto + 1
    THEN MaxContinuous(rowsets, (CHOOSE v \in rowsets : v[1] = upto + 1)[2])
    ELSE upto

\* Tablet::get_missed_versions: the singleton versions up to spec_version
\* that no local rowset covers.
get_missed_versions(rowsets, spec_version) ==
    { <<i, i>> : i \in { j \in 0..spec_version :
                           ~ \E v \in rowsets : v[1] <= j /\ j <= v[2] } }

\* TabletMeta::max_version of a header.
max_version(rowsets) ==
    IF rowsets = {} THEN <<-1, 0>>
    ELSE CHOOSE v \in rowsets : \A w \in rowsets : w[2] <= v[2]

\* TabletManager::report_tablet_info: the version reported for the tablet.
ReportedVersion(rowsets) == MaxContinuous(rowsets, -1)

\* ------------------------------------------------------------ the request
RequestReplicaIds == {2}

\* Local tablets (rowsets) and requested versions tried together.
L1 == { <<0, 1, "local">>, <<2, 4, "local">> }
L2 == { <<0, 1, "local">>, <<2, 5, "local">>, <<6, 8, "local">> }
L4 == { <<0, 1, "local">>, <<2, 3, "local">>, <<5, 8, "local">> }
Scenarios ==
    { [rowsets |-> L2, version |-> 7, isset_version |-> TRUE],
      [rowsets |-> L1, version |-> 6, isset_version |-> TRUE],
      [rowsets |-> L1, version |-> 6, isset_version |-> FALSE],
      [rowsets |-> L1, version |-> 3, isset_version |-> TRUE],
      [rowsets |-> L4, version |-> 6, isset_version |-> TRUE] }

\* Headers a source backend may send (the rowsets of the .hdr file).
ClonedMetas ==
    { { <<5, 5>>, <<6, 6>> },
      { <<4, 4>> },
      { <<0, 1>>, <<2, 4>>, <<5, 6>> },
      { <<0, 4>> } }

\* What the tablet directory and a left-over staging directory may hold at start.
LD1 == [tablet |-> EmptyDir, clone |-> NoDir]
LD2 == [tablet |-> PutFile(EmptyDir, D5, [size |-> 10 * MiB, md5 |-> 1]),
        clone |-> PutFile(PutFile(EmptyDir, D6, [size |-> MiB, md5 |-> 2]),
                          HDR, [size |-> MiB, md5 |-> 2])]
LD3 == [tablet |-> PutFile(EmptyDir, <<"_binlog", "rs5", "dat">>, [size |-> MiB, md5 |-> 1]),
        clone |-> NoDir]
LD4 == [tablet |-> PutFile(EmptyDir, <<"_binlog", "rs5", "dat">>, [size |-> MiB, md5 |-> 2]),
        clone |-> NoDir]

\* The existing local tablets tried: replica_id below, at and above the requested
\* one, merge-on-write or not, with each of the directories above.
RunningSetups ==
    { [replica_id |-> 1, mow |-> FALSE, dirs |-> LD1],
      [replica_id |-> 2, mow |-> TRUE, dirs |-> LD1],
      [replica_id |-> 3, mow |-> FALSE, dirs |-> LD1],
      [replica_id |-> 2, mow |-> FALSE, dirs |-> LD2],
      [replica_id |-> 1, mow |-> TRUE, dirs |-> LD3],
      [replica_id |-> 3, mow |-> TRUE, dirs |-> LD2],
      [replica_id |-> 2, mow |-> FALSE, dirs |-> LD4] }

PendingPublishMinVersions == {5, 99}

VARIABLES
    pc,                      \* where the task is
    clone_req,               \* _clone_req: tablet_id, schema_hash, replica_id, partition_id,
                             \* version, isset_version, src_backends
    registry,                \* the transition registry entry of tablet_id: "free", "other", "clone"
    tablet,                  \* the local tablet as the tablet manager holds it
    tablet0,                 \* the local tablet and its directory when the task started
    migration_lock,          \* "free", "writer" (another thread) or "reader" (this task)
    locks,                   \* the tablet locks this task holds, in acquisition order
    tablet_dir,              \* the tablet directory (EXISTING) or the destination directory (NEW)
    clone_dir,               \* <tablet_dir>/clone
    is_new_tablet,           \* _is_new_tablet
    status,                  \* the local `status` of _do_clone
    ret,                     \* the Status _do_clone returned
    dir_guard,               \* whether the remove_useless_dir Defer was set up
    specified_version,
    missed_versions,
    allow_incremental_clone,
    src,                     \* index of the current source backend in src_backends
    snapshot_path,
    snapshot_result,         \* allow_incremental_clone of the TAgentResult _make_snapshot is
                             \* reading: "unset", "true", "false"; "none" outside _make_snapshot
    mstatus,                 \* the local `status` of _make_and_download_snapshots
    after_release,           \* how the loop body is left: "continue", "break", "return"
    batch,                   \* whether the batch strategy is used for this peer
    file_list,               \* file_name_list / file_info_list after the .hdr swap
    file_idx,                \* the next file to fetch
    copy_size,               \* _copy_size
    pending_rs_guards,       \* _pending_rs_guards is set
    cloned_tablet_meta,
    contain_binlog,
    local_file_names,        \* the files listed in the tablet directory before linking
    clone_file_names,        \* the files of the link loop not yet visited
    linked_success_files,
    fstatus,                 \* the local `status` of _finish_clone
    merged,                  \* "none", "incremental", "full": the merge that ran
    tablet_infos,            \* the caller-provided list
    release_result,          \* what the latest release_snapshot RPC returned
    attempt,                 \* the latest peer attempt: its peer and what its make_snapshot,
                             \* its transfer and its convert_rowset_ids ended with
    exit_path,               \* the place _do_clone returned from
    other_task,              \* another clone task of the same tablet: "idle" or "registered"
    calls                    \* the calls made on collaborators, in order

vars == << pc, clone_req, registry, tablet, tablet0, migration_lock, locks, tablet_dir,
           clone_dir, is_new_tablet, status, ret, dir_guard, specified_version,
           missed_versions, allow_incremental_clone, src, snapshot_path, snapshot_result, snapshot_result,
           mstatus,
           after_release, batch, file_list, file_idx, copy_size, pending_rs_guards,
           cloned_tablet_meta, contain_binlog, local_file_names, clone_file_names,
           linked_success_files, fstatus, merged, tablet_infos, release_result,
           attempt, exit_path, other_task, calls >>

reqVars == << clone_req, tablet0 >>
dirVars == << tablet_dir, clone_dir >>
peerVars == << allow_incremental_clone, src, snapshot_path, snapshot_result, snapshot_result, mstatus,
              after_release,
              release_result, attempt >>
xferVars == << batch, file_list, file_idx, copy_size >>
finishVars == << cloned_tablet_meta, contain_binlog, local_file_names, clone_file_names,
                 linked_success_files, fstatus, merged >>

Call(op, who, arg, result) == << op, who, arg, result >>

NoAttempt == [peer |-> 0, make |-> "none", transfer |-> "none", convert |-> "none"]

NoTablet ==
    [state |-> "NONE", replica_id |-> 0, rowsets |-> {}, mow |-> FALSE,
     binlog_metas |-> 0, cooldown_replica_id |-> 0, cooldown_meta_id |-> "none",
     delete_bitmap |-> {},
     cumulative_layer_point |-> K_INVALID_CUMULATIVE_POINT]

\* The cooldown conf of a local tablet names the replica of the request as
\* the cooldown replica.
LocalTablet(state, replica_id, rowsets, mow) ==
    [state |-> state, replica_id |-> replica_id, rowsets |-> rowsets, mow |-> mow,
     binlog_metas |-> 0, cooldown_replica_id |-> 2, cooldown_meta_id |-> "local",
     delete_bitmap |-> {"local"},
     cumulative_layer_point |-> 2]

Init ==
    /\ pc = "start"
    /\ \E n \in 0..MaxPeers, sc \in Scenarios, rid \in RequestReplicaIds :
          clone_req = [tablet_id |-> "10001", schema_hash |-> "h1", replica_id |-> rid,
                       partition_id |-> "p1", version |-> sc.version,
                       isset_version |-> sc.isset_version, src_backends |-> n]
          /\ \/ /\ tablet = NoTablet
                /\ \E d \in BOOLEAN :
                      tablet_dir = IF d THEN PutFile(EmptyDir, D6, [size |-> MiB, md5 |-> 2])
                                   ELSE NoDir
                /\ clone_dir = NoDir
                /\ migration_lock = "free"
             \/ /\ tablet = LocalTablet("NOTREADY", rid, {}, FALSE)
                /\ tablet_dir = EmptyDir
                /\ clone_dir = NoDir
                /\ migration_lock = "free"
             \/ /\ \E su \in RunningSetups :
                      /\ tablet = LocalTablet("RUNNING", su.replica_id, sc.rowsets, su.mow)
                      /\ tablet_dir = su.dirs.tablet
                      /\ clone_dir = su.dirs.clone
                /\ migration_lock \in {"free", "writer"}
    /\ registry \in {"free", "other"}
    /\ other_task = IF registry = "other" THEN "registered" ELSE "idle"
    /\ tablet0 = [tablet |-> tablet, tablet_dir |-> tablet_dir]
    /\ locks = <<>>
    /\ is_new_tablet = FALSE
    /\ status = OK
    /\ ret = OK
    /\ dir_guard = FALSE
    /\ specified_version = 0
    /\ missed_versions = {}
    /\ allow_incremental_clone = FALSE
    /\ src = 0
    /\ snapshot_path = [peer |-> 0, slash |-> TRUE]
    /\ snapshot_result = "none"
    /\ mstatus = OK
    /\ after_release = "continue"
    /\ batch = FALSE
    /\ file_list = <<>>
    /\ file_idx = 1
    /\ copy_size = 0
    /\ pending_rs_guards = FALSE
    /\ cloned_tablet_meta = {}
    /\ contain_binlog = FALSE
    /\ local_file_names = {}
    /\ clone_file_names = {}
    /\ linked_success_files = {}
    /\ fstatus = OK
    /\ merged = "none"
    /\ tablet_infos = <<>>
    /\ release_result = "none"
    /\ attempt = NoAttempt
    /\ exit_path = "none"
    /\ calls = <<>>

\* ------------------------------------------------- EngineCloneTask::_do_clone
\* The directory the transfer writes into: local_data_path.
Staging == IF is_new_tablet THEN tablet_dir ELSE clone_dir
SetStaging(d) ==
    IF is_new_tablet THEN tablet_dir' = d /\ UNCHANGED clone_dir
                     ELSE clone_dir' = d /\ UNCHANGED tablet_dir

\* DBUG_EXECUTE_IF("EngineCloneTask.wait_clone") and ("EngineCloneTask.failed_clone").
DebugPoints ==
    /\ pc = "start"
    /\ \E failed_clone \in BOOLEAN :
          IF failed_clone
          THEN /\ ret' = "INTERNAL_ERROR"
               /\ exit_path' = "failed_clone"
               /\ pc' = "update_visible_version"
          ELSE /\ UNCHANGED << ret, exit_path >>
               /\ pc' = "register"
    /\ UNCHANGED << reqVars, other_task, registry, tablet, migration_lock, locks, dirVars, is_new_tablet,
                    status, dir_guard, specified_version, missed_versions, peerVars,
                    xferVars, pending_rs_guards, finishVars, tablet_infos, calls >>

\* What register_transition_tablet answers: refused while the tablet is registered.
RegisterResult(reg) == IF reg = "free" THEN OK ELSE "TRANSITION_BUSY"

\* A task that would go on after a refused registration.
RegistrationHeld_Always(st) == TRUE

\* RETURN_IF_ERROR(register_transition_tablet(...)): the task goes on, and sets up
\* the Defer, only when the registration succeeded.
RegistrationHeld(st) == IsOk(st)

\* register_transition_tablet(tablet_id, "clone") and the Defer that undoes it.
RegisterTransition ==
    /\ pc = "register"
    /\ LET st == RegisterResult(registry)
       IN /\ calls' = Append(calls, Call("register_transition", 0, 0, st))
          /\ registry' = IF IsOk(st) THEN "clone" ELSE registry
          /\ IF RegistrationHeld(st)
             THEN /\ UNCHANGED << ret, exit_path >>
                  /\ pc' = "get_tablet"
             ELSE /\ ret' = st
                  /\ exit_path' = "register_transition"
                  /\ pc' = "update_visible_version"
    /\ UNCHANGED << reqVars, other_task, tablet, migration_lock, locks, dirVars,
                    is_new_tablet, status, dir_guard, specified_version, missed_versions,
                    peerVars, xferVars, pending_rs_guards, finishVars, tablet_infos >>

\* get_tablet, and the drop of a NOTREADY tablet.
GetTablet ==
    /\ pc = "get_tablet"
    /\ IF tablet.state = "NOTREADY"
       THEN \E drop_ok \in BOOLEAN :
               IF drop_ok
               THEN /\ tablet' = NoTablet
                    /\ calls' = Append(calls, Call("drop_tablet", 0, 0, OK))
                    /\ is_new_tablet' = TRUE
                    /\ UNCHANGED << ret, exit_path >>
                    /\ pc' = "obtain_shard_path"
               ELSE /\ tablet' = tablet
                    /\ calls' = Append(calls, Call("drop_tablet", 0, 0, "INTERNAL_ERROR"))
                    /\ is_new_tablet' = is_new_tablet
                    /\ ret' = "INTERNAL_ERROR"
                    /\ exit_path' = "drop_notready"
                    /\ pc' = "do_clone_exit"
       ELSE /\ is_new_tablet' = (tablet.state = "NONE")
            /\ pc' = IF tablet.state = "NONE" THEN "obtain_shard_path" ELSE "try_lock"
            /\ UNCHANGED << tablet, calls, ret, exit_path >>
    /\ UNCHANGED << reqVars, other_task, registry, migration_lock, locks, dirVars,
                    status, dir_guard, specified_version, missed_versions, peerVars,
                    xferVars, pending_rs_guards, finishVars, tablet_infos >>

\* if (tablet->replica_id() < _clone_req.replica_id) set_replica_id(...)
ReconcileReplicaId(local, requested) == IF local < requested THEN requested ELSE local

\* A try_lock that would report the lock as taken whoever holds it.
OwnsLock_Always(lock) == TRUE

\* migration_rlock.owns_lock() after std::try_to_lock: a shared lock is not granted
\* while the lock is held exclusively.
OwnsLock(lock) == lock # "writer"

\* std::shared_lock migration_rlock(..., std::try_to_lock) and the replica_id reset.
TryLockMigration ==
    /\ pc = "try_lock"
    /\ IF ~OwnsLock(migration_lock)
       THEN /\ ret' = "TRY_LOCK_FAILED"
            /\ exit_path' = "try_lock"
            /\ pc' = "do_clone_exit"
            /\ UNCHANGED << migration_lock, locks, tablet >>
       ELSE /\ migration_lock' = "reader"
            /\ locks' = << "migration" >>
            /\ tablet' = [tablet EXCEPT
                            !.replica_id = ReconcileReplicaId(@, clone_req.replica_id)]
            /\ UNCHANGED << ret, exit_path >>
            /\ pc' = "missed_versions"
    /\ UNCHANGED << reqVars, other_task, registry, dirVars, is_new_tablet, status, dir_guard,
                    specified_version, missed_versions, peerVars, xferVars,
                    pending_rs_guards, finishVars, tablet_infos, calls >>

\* The clamp of specified_version for merge-on-write tablets.
SpecifiedVersion(version, mow, min_pending_ver) ==
    IF mow /\ min_pending_ver - 1 < version THEN min_pending_ver - 1 ELSE version

\* The loop head of _make_and_download_snapshots.
PeerLoopPc(k) == IF k > clone_req.src_backends THEN "mads_return" ELSE "make_snapshot"

\* A task that would go to the peers although nothing is missed.
NothingMissed_Never(mv) == FALSE

\* if (missed_versions.empty())
NothingMissed(mv) == mv = {}

\* specified_version, get_missed_versions and the shortcut when nothing is missed.
ComputeMissedVersions ==
    /\ pc = "missed_versions"
    /\ \E min_pending_ver \in PendingPublishMinVersions :
          LET sv == SpecifiedVersion(clone_req.version, tablet.mow, min_pending_ver)
              mv == get_missed_versions(tablet.rowsets, sv)
          IN /\ specified_version' = sv
             /\ missed_versions' = mv
             /\ IF NothingMissed(mv)
                THEN /\ pc' = "set_tablet_info"
                     /\ UNCHANGED << src, mstatus >>
                ELSE /\ src' = 1
                     /\ mstatus' = OK
                     /\ pc' = PeerLoopPc(1)
    /\ UNCHANGED << reqVars, other_task, registry, tablet, migration_lock, locks, dirVars, is_new_tablet,
                    status, ret, exit_path, dir_guard, allow_incremental_clone, snapshot_path, snapshot_result,
                    after_release, xferVars, pending_rs_guards, finishVars, tablet_infos,
                    calls, release_result, attempt >>

\* obtain_shard_path; on success the remove_useless_dir Defer comes into scope.
ObtainShardPath ==
    /\ pc = "obtain_shard_path"
    /\ \E ok \in BOOLEAN :
          IF ok
          THEN /\ dir_guard' = TRUE
               /\ UNCHANGED << ret, exit_path >>
               /\ pc' = "check_dest_dir"
          ELSE /\ dir_guard' = dir_guard
               /\ ret' = "INTERNAL_ERROR"
               /\ exit_path' = "obtain_shard_path"
               /\ pc' = "do_clone_exit"
    /\ UNCHANGED << reqVars, other_task, registry, tablet, migration_lock, locks, dirVars, is_new_tablet,
                    status, specified_version, missed_versions, peerVars, xferVars,
                    pending_rs_guards, finishVars, tablet_infos, calls >>

\* exists(tablet_dir) and the removal of a directory found there.
CheckDestDir ==
    /\ pc = "check_dest_dir"
    /\ \E exists_ok \in BOOLEAN, delete_ok \in BOOLEAN :
          IF ~exists_ok \/ (tablet_dir.exists /\ ~delete_ok)
          THEN /\ ret' = "IO_ERROR"
               /\ exit_path' = "check_dest_dir"
               /\ pc' = "do_clone_exit"
               /\ UNCHANGED << tablet_dir, src, mstatus >>
          ELSE /\ tablet_dir' = NoDir
               /\ UNCHANGED << ret, exit_path >>
               /\ src' = 1
               /\ mstatus' = OK
               /\ pc' = PeerLoopPc(1)
    /\ UNCHANGED << reqVars, other_task, registry, tablet, migration_lock, locks, clone_dir, is_new_tablet,
                    status, dir_guard, specified_version, missed_versions,
                    allow_incremental_clone, snapshot_path, snapshot_result, after_release, xferVars,
                    pending_rs_guards, finishVars, tablet_infos, calls, release_result, attempt >>

\* ------------------------- EngineCloneTask::_make_and_download_snapshots
\* _make_snapshot appends "/" to a snapshot path that does not end with one.
NormalizePath(path) == [path EXCEPT !.slash = TRUE]

\* A loop that would keep the first error it saw.
AttemptStatus_KeepFirst(old, err) == IF IsOk(old) THEN err ELSE old

\* `status = ...` of a failed attempt replaces what an earlier peer left there.
AttemptStatus(old, err) == err

NextPeer(k) == k + 1

\* OK; the RPC failed or the peer answered with an error status; the peer answered
\* OK without a snapshot path.
MakeSnapshotResults == { "OK", "RPC_ERROR", "NO_SNAPSHOT_PATH" }

\* _make_snapshot on the current peer up to the snapshot path of the result;
\* `continue` when the RPC fails, the peer answers with an error or no path.
MakeSnapshot ==
    /\ pc = "make_snapshot"
    /\ \E r \in MakeSnapshotResults, slash \in BOOLEAN, incr \in {"unset", "true", "false"} :
          LET st == IF r = "NO_SNAPSHOT_PATH" THEN "INTERNAL_ERROR" ELSE r
          IN /\ calls' = Append(calls, Call("make_snapshot", src, missed_versions, st))
             /\ attempt' = [NoAttempt EXCEPT !.peer = src, !.make = st]
             /\ IF IsOk(st)
                THEN /\ snapshot_path' = NormalizePath([peer |-> src, slash |-> slash])
                     /\ snapshot_result' = incr
                     /\ src' = src
                     /\ pc' = "make_snapshot_result"
                     /\ UNCHANGED mstatus
                ELSE /\ mstatus' = AttemptStatus(mstatus, st)
                     /\ src' = NextPeer(src)
                     /\ pc' = PeerLoopPc(NextPeer(src))
                     /\ UNCHANGED << snapshot_path, snapshot_result >>
    /\ UNCHANGED << reqVars, other_task, registry, tablet, migration_lock, locks, dirVars, is_new_tablet,
                    status, ret, exit_path, dir_guard, specified_version, missed_versions,
                    allow_incremental_clone, after_release, xferVars, pending_rs_guards,
                    finishVars, tablet_infos, release_result >>

\* A _make_snapshot that would start from false for every peer.
AllowIncremental_PerPeer(old, reply) == reply = "true"

\* if (result.__isset.allow_incremental_clone)
\*     *allow_incremental_clone = result.allow_incremental_clone;
AllowIncremental(old, reply) == IF reply = "unset" THEN old ELSE reply = "true"

\* The end of _make_snapshot: allow_incremental_clone is taken from the result when
\* the result has it; the function returns OK to the loop.
MakeSnapshotResult ==
    /\ pc = "make_snapshot_result"
    /\ allow_incremental_clone' = AllowIncremental(allow_incremental_clone, snapshot_result)
    /\ snapshot_result' = "none"
    /\ mstatus' = OK
    /\ pc' = "download_begin"
    /\ UNCHANGED << reqVars, other_task, registry, tablet, migration_lock, locks, dirVars, is_new_tablet,
                    status, ret, exit_path, dir_guard, specified_version, missed_versions,
                    src, snapshot_path, after_release, release_result, attempt, xferVars,
                    pending_rs_guards, finishVars, tablet_infos, calls >>

\* -------------------------- _download_files and _batch_download_files
Min(S) == CHOOSE x \in S : \A y \in S : x <= y

\* A listing fetched in the order the peer sent it.
SwapHdrLast_Keep(l) == l

\* The first .hdr entry that is not the last entry changes places with the last.
SwapHdrLast(l) ==
    LET hdrs == { i \in 1..(Len(l) - 1) : EndsWith(l[i].name, "hdr") }
    IN IF hdrs = {} THEN l
       ELSE [l EXCEPT ![Min(hdrs)] = l[Len(l)], ![Len(l)] = l[Min(hdrs)]]

RECURSIVE SumSizes(_)
SumSizes(l) == IF l = <<>> THEN 0 ELSE Head(l).size + SumSizes(Tail(l))

PutEntries(dir, entries) ==
    LET names == { e.name : e \in entries }
    IN [dir EXCEPT !.files =
           [n \in (DOMAIN dir.files) \cup names |->
               IF n \in names
               THEN LET e == CHOOSE x \in entries : x.name = n
                    IN [size |-> e.size, md5 |-> e.md5]
               ELSE dir.files[n]]]

\* A packing without the rule that sets the last file apart.
RECURSIVE PackFrom_NoLastRule(_, _, _, _)
PackFrom_NoLastRule(list, j, batch_files, batch_file_size) ==
    IF \/ j > Len(list)
       \/ BATCH_FILE_NUM <= Len(batch_files)
       \/ BATCH_FILE_SIZE <= batch_file_size
    THEN batch_files
    ELSE PackFrom_NoLastRule(list, j + 1, Append(batch_files, list[j]),
                             batch_file_size + list[j].size)

\* A packing without the test of the number of files.
RECURSIVE PackFrom_NoCountRule(_, _, _, _)
PackFrom_NoCountRule(list, j, batch_files, batch_file_size) ==
    IF \/ j > Len(list)
       \/ BATCH_FILE_SIZE <= batch_file_size
       \/ (j = Len(list) /\ batch_files # <<>>)
    THEN batch_files
    ELSE PackFrom_NoCountRule(list, j + 1, Append(batch_files, list[j]),
                              batch_file_size + list[j].size)

\* A packing that would set the last file apart from an empty batch too.
RECURSIVE PackFrom_EmptyAtLast(_, _, _, _)
PackFrom_EmptyAtLast(list, j, batch_files, batch_file_size) ==
    IF \/ j > Len(list)
       \/ BATCH_FILE_NUM <= Len(batch_files)
       \/ BATCH_FILE_SIZE <= batch_file_size
       \/ (j = Len(list) /\ Len(list) > 1)
    THEN batch_files
    ELSE PackFrom_EmptyAtLast(list, j + 1, Append(batch_files, list[j]),
                              batch_file_size + list[j].size)

\* The inner loop of _batch_download_files: the batch that starts at list[j].
RECURSIVE PackFrom(_, _, _, _)
PackFrom(list, j, batch_files, batch_file_size) ==
    IF \/ j > Len(list)
       \/ BATCH_FILE_NUM <= Len(batch_files)
       \/ BATCH_FILE_SIZE <= batch_file_size
       \/ (j = Len(list) /\ batch_files # <<>>)
    THEN batch_files
    ELSE PackFrom(list, j + 1, Append(batch_files, list[j]), batch_file_size + list[j].size)

NextBatch(list, i) == PackFrom(list, i, <<>>, 0)

\* A loop that would return at once when the disk is full.
AfterTransferFailure_StopOnCapacity(err) ==
    IF err = "EXCEEDED_LIMIT" THEN "return" ELSE "continue"

\* What the peer loop does after a failed transfer: `continue; // Try another BE`.
AfterTransferFailure(err) == "continue"

\* A transfer function returns an error: its locals end with it.
FailAttempt(err) ==
    /\ mstatus' = AttemptStatus(mstatus, err)
    /\ after_release' = AfterTransferFailure(err)
    /\ attempt' = [attempt EXCEPT !.transfer = err]
    /\ batch' = FALSE
    /\ file_list' = << >>
    /\ file_idx' = 1
    /\ pc' = "release"

\* A transfer that would write into the directory it finds.
RecreateDir_Keep(dir) == IF dir.exists THEN dir ELSE EmptyDir

\* delete_directory(local_path) and create_directory(local_path).
RecreateDir(dir) == EmptyDir

\* The choice of strategy, delete_directory + create_directory of local_path, the
\* listing and the move of the .hdr entry to the end.
BeginDownload ==
    /\ pc = "download_begin"
    /\ \E use_batch \in BOOLEAN,
          r \in {"ok", "delete_failed", "create_failed", "list_failed"},
          l \in Listings :
          IF r = "ok"
          THEN /\ SetStaging(RecreateDir(Staging))
               /\ batch' = use_batch
               /\ file_list' = SwapHdrLast(l)
               /\ file_idx' = 1
               /\ pc' = IF use_batch THEN "download_batch" ELSE "download_file"
               /\ UNCHANGED << mstatus, after_release, attempt >>
          ELSE /\ SetStaging(CASE r = "delete_failed" -> Staging
                               [] r = "create_failed" -> NoDir
                               [] OTHER -> EmptyDir)
               /\ FailAttempt(IF r = "list_failed" THEN "HTTP_ERROR" ELSE "IO_ERROR")
    /\ UNCHANGED << reqVars, other_task, registry, tablet, migration_lock, locks, is_new_tablet,
                    status, ret, exit_path, dir_guard, specified_version, missed_versions,
                    allow_incremental_clone, src, snapshot_path, snapshot_result, copy_size,
                    pending_rs_guards, finishVars, tablet_infos, calls, release_result >>

\* A download that would count whatever it wrote.
SizeMatches_Always(local_file_size, file_size) == TRUE

\* if (local_file_size != file_size) return InternalError(...)
SizeMatches(local_file_size, file_size) == local_file_size = file_size

\* One iteration of the per-file loop: HEAD, reach_capacity_limit, GET with the
\* size check and the permission change (each under execute_with_retry: an outcome
\* other than "ok" is the outcome of the last retry).
DownloadFile ==
    /\ pc = "download_file"
    /\ IF file_idx > Len(file_list)
       THEN /\ copy_size' = SumSizes(file_list)
            /\ batch' = FALSE
            /\ file_list' = << >>
            /\ file_idx' = 1
            /\ pc' = "convert"
            /\ attempt' = [attempt EXCEPT !.transfer = OK]
            /\ UNCHANGED << dirVars, mstatus, after_release >>
       ELSE LET e == file_list[file_idx]
            IN \E r \in {"ok", "head_failed", "capacity", "truncated", "get_failed"} :
                  LET written == IF r = "truncated" THEN [size |-> e.size - 1, md5 |-> 0]
                                 ELSE [size |-> e.size, md5 |-> e.md5]
                      downloaded == r \in {"ok", "truncated"}
                  IN /\ r = "truncated" => e.size > 0
                     /\ IF downloaded /\ SizeMatches(written.size, e.size)
                        THEN /\ SetStaging(PutFile(Staging, e.name, written))
                             /\ file_idx' = file_idx + 1
                             /\ pc' = pc
                             /\ UNCHANGED << mstatus, after_release, batch, file_list, attempt >>
                        ELSE /\ SetStaging(IF downloaded THEN PutFile(Staging, e.name, written)
                                           ELSE Staging)
                             /\ FailAttempt(CASE r = "capacity" -> "EXCEEDED_LIMIT"
                                              [] downloaded -> "INTERNAL_ERROR"
                                              [] OTHER -> "HTTP_ERROR")
                     /\ copy_size' = copy_size
    /\ UNCHANGED << reqVars, other_task, registry, tablet, migration_lock, locks, is_new_tablet,
                    status, ret, exit_path, dir_guard, specified_version, missed_versions,
                    allow_incremental_clone, src, snapshot_path, snapshot_result,
                    pending_rs_guards, finishVars, tablet_infos, calls, release_result >>

\* One iteration of the outer loop of _batch_download_files: pack a batch, check
\* the capacity for it, fetch it with download_files_v2 (the files of a batch
\* arrive one after the other: a request that fails has written the first n of
\* them and may have cut the next one short).
DownloadBatch ==
    /\ pc = "download_batch"
    /\ IF file_idx > Len(file_list)
       THEN /\ copy_size' = SumSizes(file_list)
            /\ batch' = FALSE
            /\ file_list' = << >>
            /\ file_idx' = 1
            /\ pc' = "convert"
            /\ attempt' = [attempt EXCEPT !.transfer = OK]
            /\ UNCHANGED << dirVars, mstatus, after_release >>
       ELSE LET batch_files == NextBatch(file_list, file_idx)
            IN \E r \in {"ok", "capacity", "get_failed"},
                  n \in 0..(Len(batch_files) - 1), cut \in BOOLEAN :
                  /\ r # "get_failed" => (n = 0 /\ ~cut)
                  /\ cut => batch_files[n + 1].size > 0
                  /\ IF r = "ok"
                     THEN /\ SetStaging(PutEntries(Staging,
                                 { batch_files[i] : i \in 1..Len(batch_files) }))
                          /\ file_idx' = file_idx + Len(batch_files)
                          /\ pc' = pc
                          /\ UNCHANGED << mstatus, after_release, batch, file_list, attempt >>
                     ELSE /\ SetStaging(PutEntries(Staging,
                                 { batch_files[i] : i \in 1..n }
                                 \cup (IF cut
                                       THEN { F(batch_files[n + 1].name,
                                                batch_files[n + 1].size - 1, 0) }
                                       ELSE {})))
                          /\ FailAttempt(IF r = "capacity" THEN "EXCEEDED_LIMIT"
                                         ELSE "HTTP_ERROR")
                  /\ copy_size' = copy_size
    /\ UNCHANGED << reqVars, other_task, registry, tablet, migration_lock, locks, is_new_tablet,
                    status, ret, exit_path, dir_guard, specified_version, missed_versions,
                    allow_incremental_clone, src, snapshot_path, snapshot_result,
                    pending_rs_guards, finishVars, tablet_infos, calls, release_result >>

\* A loop without the `break` after convert_rowset_ids.
AfterConvert_NoBreak(ok) == IF ok THEN "continue" ELSE "return"

\* A loop that would go on to the next backend when convert_rowset_ids fails.
AfterConvert_TryNext(ok) == IF ok THEN "break" ELSE "continue"

\* After convert_rowset_ids: `break` on success, DORIS_TRY returns its error.
AfterConvert(ok) == IF ok THEN "break" ELSE "return"

\* _pending_rs_guards = DORIS_TRY(convert_rowset_ids(...)); break;
ConvertRowsetIds ==
    /\ pc = "convert"
    /\ \E ok \in BOOLEAN :
          /\ calls' = Append(calls, Call("convert_rowset_ids", src, 0,
                                         IF ok THEN OK ELSE "INTERNAL_ERROR"))
          /\ pending_rs_guards' = (pending_rs_guards \/ ok)
          /\ mstatus' = IF ok THEN mstatus ELSE "INTERNAL_ERROR"
          /\ after_release' = AfterConvert(ok)
          /\ attempt' = [attempt EXCEPT !.convert = IF ok THEN OK ELSE "INTERNAL_ERROR"]
          /\ pc' = "release"
    /\ UNCHANGED << reqVars, other_task, registry, tablet, migration_lock, locks, dirVars, is_new_tablet,
                    status, ret, exit_path, dir_guard, specified_version, missed_versions,
                    allow_incremental_clone, src, snapshot_path, snapshot_result, xferVars,
                    finishVars, tablet_infos, release_result >>

\* A release that would be sent only when the attempt succeeded.
ReleaseCalls_OnSuccess(k, path) ==
    IF IsOk(mstatus) THEN << Call("release_snapshot", k, path, OK) >> ELSE << >>

\* The Defer of the loop body: what it sends when the body is left.
ReleaseCalls(k, path) == << Call("release_snapshot", k, path, OK) >>

\* A Defer that would hand a failed release to the loop's status.
StatusAfterRelease_Propagate(st, result) == IF IsOk(result) THEN st ELSE result

\* The Defer only logs a failed release.
StatusAfterRelease(st, result) == st

\* The Defer runs (_release_snapshot), then the loop continues or is left.
ReleaseSnapshot ==
    /\ pc = "release"
    /\ \E result \in {OK, "RPC_ERROR"} :
          /\ release_result' = result
          /\ mstatus' = StatusAfterRelease(mstatus, result)
    /\ calls' = calls \o ReleaseCalls(src, snapshot_path)
    /\ IF after_release = "continue"
       THEN /\ src' = NextPeer(src)
            /\ pc' = PeerLoopPc(NextPeer(src))
       ELSE /\ src' = src
            /\ pc' = "mads_return"
    /\ UNCHANGED << reqVars, other_task, registry, tablet, migration_lock, locks, dirVars, is_new_tablet,
                    status, ret, exit_path, dir_guard, specified_version, missed_versions,
                    allow_incremental_clone, snapshot_path, snapshot_result, after_release, xferVars,
                    pending_rs_guards, finishVars, tablet_infos, attempt >>

\* _make_and_download_snapshots returns `status` to _do_clone: RETURN_IF_ERROR on the
\* EXISTING path, RETURN_IF_ERROR_(status, ...) on the NEW path.
MakeAndDownloadReturn ==
    /\ pc = "mads_return"
    /\ status' = IF is_new_tablet THEN mstatus ELSE status
    /\ IF IsOk(mstatus)
       THEN /\ pc' = IF is_new_tablet THEN "load_tablet" ELSE "finish_begin"
            /\ UNCHANGED << ret, exit_path >>
       ELSE /\ pc' = "do_clone_exit"
            /\ ret' = mstatus
            /\ exit_path' = IF after_release = "return" THEN "convert_rowset_ids"
                            ELSE "make_and_download_snapshots"
    /\ UNCHANGED << reqVars, other_task, registry, tablet, migration_lock, locks, dirVars, is_new_tablet,
                    dir_guard, specified_version, missed_versions, peerVars, xferVars,
                    pending_rs_guards, finishVars, tablet_infos, calls >>

\* ------------------------------------------ EngineCloneTask::_finish_clone
\* Lock guards declared with the header lock first.
FinishLocks_HeaderFirst ==
    << "header", "base_compaction", "cumulative_compaction", "cold_compaction",
       "build_inverted_index", "push", "rowset_update" >>

\* The locks _finish_clone takes, in the order of its lock_guard declarations.
FinishLocks == << "base_compaction", "cumulative_compaction", "cold_compaction",
                  "build_inverted_index", "push", "rowset_update", "header" >>

\* check_dest_binlog_valid: where a staged binlog file goes.
BinlogDest(clone_file) ==
    IF EndsWith(clone_file, "binlog") THEN << "_binlog", clone_file[2], "dat" >>
    ELSE IF EndsWith(clone_file, "binlog-index") THEN << "_binlog", clone_file[2], "idx" >>
    ELSE << "_binlog", clone_file[2], clone_file[3] >>

IsBinlogFile(clone_file) ==
    EndsWith(clone_file, "binlog") \/ EndsWith(clone_file, "binlog-index")

\* A check that would skip the link whenever the destination is there.
SkipLinkFile_Always(clone_file_md5sum, to_file_md5sum) == TRUE

\* check_dest_binlog_valid with the destination present: *skip_link_file = true
\* when the two md5sums are equal, an internal error otherwise.
SkipLinkFile(clone_file_md5sum, to_file_md5sum) == clone_file_md5sum = to_file_md5sum

\* A header file that would be left where it is.
DeleteHeader_Keep(dir) == dir

\* delete_file of <dir>/<tablet_id>.hdr.
DeleteHeader(dir) == DelFiles(dir, {HDR})

\* From the clone-dir check to the two directory listings: the header is parsed
\* and deleted, rowset_binlog_metas.pb is read and deleted, _binlog is created.
\* (What the parsed header holds is first looked at by the merge, and drawn there.)
FinishCloneBegin ==
    /\ pc = "finish_begin"
    /\ \E r \in {"ok", "parse_failed", "delete_failed", "io_failed"} :
          LET has_hdr == HDR \in FileNames(clone_dir)
              has_pb == PB \in FileNames(clone_dir)
              with_binlog == has_pb /\ clone_dir.files[PB].size > 0
              staged == DelFiles(DeleteHeader(clone_dir), {PB})
          IN IF ~clone_dir.exists
             THEN /\ fstatus' = "INTERNAL_ERROR"
                  /\ pc' = "finish_exit"
                  /\ UNCHANGED << clone_dir, contain_binlog, local_file_names,
                                  clone_file_names >>
             ELSE IF ~has_hdr \/ r = "parse_failed"
             THEN /\ fstatus' = IF has_hdr THEN "CORRUPTION" ELSE "NOT_FOUND"
                  /\ pc' = "finish_exit"
                  /\ UNCHANGED << clone_dir, contain_binlog, local_file_names,
                                  clone_file_names >>
             ELSE IF r = "delete_failed"
             THEN /\ fstatus' = "IO_ERROR"
                  /\ pc' = "finish_exit"
                  /\ UNCHANGED << clone_dir, contain_binlog, local_file_names,
                                  clone_file_names >>
             ELSE IF r = "io_failed"
             THEN /\ fstatus' = "IO_ERROR"
                  /\ clone_dir' = DeleteHeader(clone_dir)
                  /\ pc' = "finish_exit"
                  /\ UNCHANGED << contain_binlog, local_file_names, clone_file_names >>
             ELSE /\ fstatus' = OK
                  /\ contain_binlog' = with_binlog
                  /\ clone_dir' = staged
                  /\ clone_file_names' = FileNames(staged)
                  /\ local_file_names' = { n \in FileNames(tablet_dir) : n[1] = "" }
                  /\ pc' = "link"
    /\ linked_success_files' = {}
    /\ UNCHANGED << reqVars, other_task, registry, tablet, migration_lock, locks, tablet_dir,
                    is_new_tablet, status, ret, exit_path, dir_guard, specified_version,
                    missed_versions, peerVars, xferVars, pending_rs_guards,
                    cloned_tablet_meta, merged, tablet_infos, calls >>

\* One iteration of the link loop (clone_file_names is an unordered set), or the
\* end of the loop.
LinkFile ==
    /\ pc = "link"
    /\ IF clone_file_names = {}
       THEN /\ pc' = IF contain_binlog THEN "ingest" ELSE "lock"
            /\ UNCHANGED << tablet_dir, clone_file_names, linked_success_files, fstatus >>
       ELSE \E clone_file \in clone_file_names, r \in {"ok", "exists_failed", "link_failed"} :
               LET to == IF IsBinlogFile(clone_file) THEN BinlogDest(clone_file)
                         ELSE clone_file
                   dest_exists == to \in FileNames(tablet_dir)
                   same_md5 == dest_exists
                               /\ SkipLinkFile(clone_dir.files[clone_file].md5,
                                               tablet_dir.files[to].md5)
               IN /\ clone_file_names' = clone_file_names \ {clone_file}
                  /\ IF clone_file \in local_file_names
                     THEN \* find same file when clone, skip it
                          /\ pc' = pc
                          /\ UNCHANGED << tablet_dir, linked_success_files, fstatus >>
                     ELSE IF IsBinlogFile(clone_file) /\ ~contain_binlog
                     THEN \* break
                          /\ pc' = IF contain_binlog THEN "ingest" ELSE "lock"
                          /\ UNCHANGED << tablet_dir, linked_success_files, fstatus >>
                     ELSE IF IsBinlogFile(clone_file) /\ r = "exists_failed"
                     THEN /\ fstatus' = "IO_ERROR"
                          /\ pc' = "finish_exit"
                          /\ UNCHANGED << tablet_dir, linked_success_files >>
                     ELSE IF IsBinlogFile(clone_file) /\ dest_exists /\ ~same_md5
                     THEN /\ fstatus' = "INTERNAL_ERROR"
                          /\ pc' = "finish_exit"
                          /\ UNCHANGED << tablet_dir, linked_success_files >>
                     ELSE IF IsBinlogFile(clone_file) /\ dest_exists /\ same_md5
                     THEN \* skip_link_file
                          /\ pc' = pc
                          /\ UNCHANGED << tablet_dir, linked_success_files, fstatus >>
                     ELSE IF r = "link_failed" \/ dest_exists
                     THEN /\ fstatus' = "IO_ERROR"
                          /\ pc' = "finish_exit"
                          /\ UNCHANGED << tablet_dir, linked_success_files >>
                     ELSE /\ tablet_dir' = PutFile(tablet_dir, to, clone_dir.files[clone_file])
                          /\ linked_success_files' = linked_success_files \cup {to}
                          /\ fstatus' = OK
                          /\ pc' = pc
    /\ UNCHANGED << reqVars, other_task, registry, tablet, migration_lock, locks, clone_dir,
                    is_new_tablet, status, ret, exit_path, dir_guard, specified_version,
                    missed_versions, peerVars, xferVars, pending_rs_guards,
                    cloned_tablet_meta, contain_binlog, local_file_names, merged,
                    tablet_infos, calls >>

\* tablet->ingest_binlog_metas(&rowset_binlog_metas_pb)
IngestBinlogMetas ==
    /\ pc = "ingest"
    /\ \E ok \in BOOLEAN :
          IF ok
          THEN /\ tablet' = [tablet EXCEPT !.binlog_metas = @ + 1]
               /\ fstatus' = OK
               /\ pc' = "lock"
          ELSE /\ tablet' = tablet
               /\ fstatus' = "INTERNAL_ERROR"
               /\ pc' = "finish_exit"
    /\ calls' = Append(calls, Call("ingest_binlog_metas", 0, locks, fstatus'))
    /\ UNCHANGED << reqVars, other_task, registry, migration_lock, locks, dirVars, is_new_tablet,
                    status, ret, exit_path, dir_guard, specified_version, missed_versions, peerVars,
                    xferVars, pending_rs_guards, cloned_tablet_meta, contain_binlog,
                    local_file_names, clone_file_names, linked_success_files, merged,
                    tablet_infos >>

\* The next std::lock_guard of _finish_clone.
AcquireLock ==
    /\ pc = "lock"
    /\ locks' = Append(locks, FinishLocks[Len(locks)])
    /\ pc' = IF Len(locks') = Len(FinishLocks) + 1 THEN "merge" ELSE pc
    /\ UNCHANGED << reqVars, other_task, registry, tablet, migration_lock, dirVars, is_new_tablet,
                    status, ret, exit_path, dir_guard, specified_version, missed_versions, peerVars,
                    xferVars, pending_rs_guards, finishVars, tablet_infos, calls >>

\* ------------------- _finish_incremental_clone and _finish_full_clone
\* Tablet::create_rowset of a cloned rowset meta.
create_rowset(rs_meta) == << rs_meta[1], rs_meta[2], "cloned" >>

\* Tablet::revise_tablet_meta(to_add, to_delete, is_incremental_clone): the rowsets
\* of the tablet afterwards.
revise_tablet_meta(rowsets, to_add, to_delete) == (rowsets \ to_delete) \cup to_add

\* A full clone without the version-cross check.
VersionCross_None(rowsets, cloned_max_version) == {}

\* An incremental clone that would not look for the missed versions in the header.
MissingInClone_None(missed, metas) == {}

\* The missed versions for which acquire_rs_meta_by_version finds no rowset meta.
MissingInClone(missed, metas) == { v \in missed : v \notin metas }

\* The local rowsets whose range straddles the cloned max version.
VersionCross(rowsets, cloned_max_version) ==
    { v \in rowsets : v[1] <= cloned_max_version[2] /\ v[2] > cloned_max_version[2] }

\* A full clone that would delete nothing.
FullCloneToDelete_None(rowsets, cloned_max_version) == {}

\* The local rowsets a full clone deletes.
FullCloneToDelete(rowsets, cloned_max_version) ==
    { v \in rowsets : v[2] <= cloned_max_version[2] }

\* A merge that would use the missed versions computed before the locks were taken.
MissedVersionsAgain_Outside(rowsets, version, outside) == outside

\* Versions missed_versions = tablet->get_missed_versions_unlocked(version) in
\* _finish_incremental_clone: computed again, under the header lock.
MissedVersionsAgain(rowsets, version, outside) == get_missed_versions(rowsets, version)

\* cooldown_conf_unlocked().cooldown_replica_id == tablet->replica_id()
IsCooldownReplica(t) == t.cooldown_replica_id = t.replica_id

\* A full clone that would take the cooldown_meta_id of the cloned header always.
CooldownMetaId_Cloned(is_cooldown_replica) == "cloned"

\* The cooldown_meta_id a full clone sets.
CooldownMetaId(is_cooldown_replica) == IF is_cooldown_replica THEN "gen_uid" ELSE "cloned"

\* A reset that would not look at the merge's status.
CumulativePointAfter_IgnoreStatus(point, is_incremental_clone, st) ==
    IF ~is_incremental_clone THEN K_INVALID_CUMULATIVE_POINT ELSE point

\* if (!is_incremental_clone && status.ok()) set_cumulative_layer_point(...)
CumulativePointAfter(point, is_incremental_clone, st) ==
    IF ~is_incremental_clone /\ IsOk(st) THEN K_INVALID_CUMULATIVE_POINT ELSE point

\* _finish_incremental_clone or _finish_full_clone under the locks, then the reset
\* of the cumulative layer point.
Merge ==
    /\ pc = "merge"
    /\ \E r \in {"ok", "create_rowset_failed", "revise_failed"},
          cm \in ClonedMetas :
          /\ cloned_tablet_meta' = cm
          /\ IF allow_incremental_clone
             THEN LET mv == MissedVersionsAgain(tablet.rowsets, specified_version,
                                               missed_versions)
                      st == IF MissingInClone(mv, cm) # {} THEN "INTERNAL_ERROR"
                            ELSE IF r = "create_rowset_failed" /\ mv # {} THEN "IO_ERROR"
                            ELSE IF r = "revise_failed" THEN "INTERNAL_ERROR"
                            ELSE OK
                  IN /\ fstatus' = st
                     /\ tablet' =
                          [tablet EXCEPT
                             !.rowsets = IF IsOk(st)
                                         THEN revise_tablet_meta(@, { create_rowset(v) : v \in mv }, {})
                                         ELSE @,
                             !.cumulative_layer_point = CumulativePointAfter(@, TRUE, st)]
                     /\ merged' = "incremental"
             ELSE LET cloned_max_version == max_version(cm)
                      early == IF VersionCross(tablet.rowsets, cloned_max_version) # {}
                               THEN "INTERNAL_ERROR"
                               ELSE IF r = "create_rowset_failed" /\ cm # {}
                               THEN "IO_ERROR"
                               ELSE OK
                      st == IF ~IsOk(early) THEN early
                            ELSE IF r = "revise_failed" THEN "INTERNAL_ERROR"
                            ELSE OK
                  IN /\ fstatus' = st
                     /\ tablet' =
                          IF ~IsOk(early) THEN tablet
                          ELSE [tablet EXCEPT
                                  !.cooldown_meta_id = CooldownMetaId(IsCooldownReplica(tablet)),
                                  !.delete_bitmap = IF tablet.mow THEN @ \cup {"cloned"} ELSE @,
                                  !.rowsets =
                                     IF IsOk(st)
                                     THEN revise_tablet_meta(@,
                                             { create_rowset(m) : m \in cm },
                                             FullCloneToDelete(@, cloned_max_version))
                                     ELSE @,
                                  !.cumulative_layer_point = CumulativePointAfter(@, FALSE, st)]
                     /\ merged' = "full"
    /\ calls' = Append(calls, Call("revise", 0, locks, fstatus'))
    /\ pc' = "finish_exit"
    /\ UNCHANGED << reqVars, other_task, registry, migration_lock, locks, dirVars, is_new_tablet,
                    status, ret, exit_path, dir_guard, specified_version, missed_versions, peerVars,
                    xferVars, pending_rs_guards, contain_binlog,
                    local_file_names, clone_file_names, linked_success_files, tablet_infos >>

\* A Defer with the test of `status` turned around.
RemoveLinkedFiles_OnSuccess(dir, st, linked) == IF IsOk(st) THEN DelFiles(dir, linked) ELSE dir

\* The Defer remove_linked_files: batch_delete of the linked files when status is not ok.
RemoveLinkedFiles(dir, st, linked) == IF IsOk(st) THEN dir ELSE DelFiles(dir, linked)

\* The Defer remove_clone_dir: std::filesystem::remove_all(clone_dir).
RemoveCloneDir(dir) == NoDir

\* _finish_clone returns: the lock guards are released, the two Defers run, the
\* locals end (linked_success_files is kept as the record of what was linked), and
\* _do_clone goes on (RETURN_IF_ERROR).
FinishCloneExit ==
    /\ pc = "finish_exit"
    /\ locks' = << "migration" >>
    /\ tablet_dir' = RemoveLinkedFiles(tablet_dir, fstatus, linked_success_files)
    /\ clone_dir' = RemoveCloneDir(clone_dir)
    /\ IF IsOk(fstatus)
       THEN /\ pc' = "set_tablet_info"
            /\ UNCHANGED << ret, exit_path >>
       ELSE /\ pc' = "do_clone_exit"
            /\ ret' = fstatus
            /\ exit_path' = IF merged # "none" THEN "merge" ELSE "finish_clone"
    /\ cloned_tablet_meta' = {}
    /\ contain_binlog' = FALSE
    /\ local_file_names' = {}
    /\ clone_file_names' = {}
    /\ UNCHANGED << reqVars, other_task, registry, tablet, migration_lock, is_new_tablet, status,
                    dir_guard, specified_version, missed_versions, peerVars, xferVars,
                    pending_rs_guards, linked_success_files, fstatus, merged, tablet_infos,
                    calls >>

\* ------------------------------------------- _do_clone, the NEW path
\* load_tablet_from_dir, get_tablet and set_replica_id (RETURN_IF_ERROR_ and the
\* NotFound branch assign `status`).
LoadTablet ==
    /\ pc = "load_tablet"
    /\ \E r \in {"ok", "load_failed", "not_found"}, cm \in ClonedMetas :
          LET has_hdr == tablet_dir.exists /\ HDR \in FileNames(tablet_dir)
          IN IF ~has_hdr \/ r = "load_failed"
             THEN /\ status' = "INTERNAL_ERROR"
                  /\ ret' = "INTERNAL_ERROR"
                  /\ exit_path' = "load_tablet"
                  /\ tablet' = tablet
                  /\ pc' = "do_clone_exit"
             ELSE IF r = "not_found"
             THEN /\ status' = "NOT_FOUND"
                  /\ ret' = "NOT_FOUND"
                  /\ exit_path' = "tablet_not_found"
                  /\ tablet' = tablet
                  /\ pc' = "do_clone_exit"
             ELSE /\ status' = OK
                  /\ UNCHANGED << ret, exit_path >>
                  /\ tablet' = [state |-> "RUNNING", replica_id |-> clone_req.replica_id,
                                rowsets |-> { create_rowset(m) : m \in cm }, mow |-> FALSE,
                                binlog_metas |-> 0, cooldown_replica_id |-> 0,
                                cooldown_meta_id |-> "cloned",
                                delete_bitmap |-> {"cloned"},
                                cumulative_layer_point |-> K_INVALID_CUMULATIVE_POINT]
                  /\ pc' = "delete_header"
    /\ UNCHANGED << reqVars, other_task, registry, migration_lock, locks, dirVars, is_new_tablet,
                    dir_guard, specified_version, missed_versions, peerVars, xferVars,
                    pending_rs_guards, finishVars, tablet_infos, calls >>

\* RETURN_IF_ERROR(delete_file(header_path)): `status` is not assigned.
DeleteHeaderFile ==
    /\ pc = "delete_header"
    /\ \E ok \in BOOLEAN :
          IF ok
          THEN /\ tablet_dir' = DeleteHeader(tablet_dir)
               /\ UNCHANGED << ret, exit_path >>
               /\ pc' = "set_tablet_info"
          ELSE /\ tablet_dir' = tablet_dir
               /\ ret' = "IO_ERROR"
               /\ exit_path' = "delete_header"
               /\ pc' = "do_clone_exit"
    /\ UNCHANGED << reqVars, other_task, registry, tablet, migration_lock, locks, clone_dir,
                    is_new_tablet, status, dir_guard, specified_version, missed_versions,
                    peerVars, xferVars, pending_rs_guards, finishVars, tablet_infos, calls >>

\* ------------------------------------- EngineCloneTask::_set_tablet_info
\* Whether the reported version is the unexpected one.
\* A report without the version check.
UnexpectedVersion_Never(version) == FALSE

\* if (_clone_req.__isset.version && tablet_info.version < _clone_req.version)
UnexpectedVersion(version) == clone_req.isset_version /\ version < clone_req.version

\* A tablet info that would carry the replica_id of the local tablet.
TabletInfo_LocalReplica(version) ==
    [tablet_id |-> clone_req.tablet_id, replica_id |-> tablet.replica_id,
     schema_hash |-> clone_req.schema_hash, version |-> version]

\* The TTabletInfo of _set_tablet_info: tablet_id, replica_id and schema_hash are
\* set from the request, the version comes from report_tablet_info.
TabletInfo(version) ==
    [tablet_id |-> clone_req.tablet_id, replica_id |-> clone_req.replica_id,
     schema_hash |-> clone_req.schema_hash, version |-> version]

\* A version check that would drop the tablet whichever path was taken.
DropsStaleTablet_Always(is_new) == TRUE

\* if (_is_new_tablet) drop_tablet(...)
DropsStaleTablet(is_new) == is_new

\* _set_tablet_info: report_tablet_info, the version check, the drop of a stale
\* new tablet, the push_back of the tablet info.
SetTabletInfo ==
    /\ pc = "set_tablet_info"
    /\ \E report_ok \in BOOLEAN, drop_ok \in BOOLEAN :
          LET version == ReportedVersion(tablet.rowsets)
          IN IF ~report_ok
             THEN /\ ret' = "NOT_FOUND"
                  /\ exit_path' = "report_tablet_info"
                  /\ UNCHANGED << tablet, tablet_infos, calls >>
             ELSE IF UnexpectedVersion(version)
             THEN /\ ret' = "INTERNAL_ERROR"
                  /\ exit_path' = "unexpected_version"
                  /\ IF DropsStaleTablet(is_new_tablet)
                     THEN /\ tablet' = IF drop_ok THEN [tablet EXCEPT !.state = "SHUTDOWN"]
                                       ELSE tablet
                          /\ calls' = Append(calls, Call("drop_tablet", 0, 0,
                                                IF drop_ok THEN OK ELSE "INTERNAL_ERROR"))
                     ELSE UNCHANGED << tablet, calls >>
                  /\ UNCHANGED tablet_infos
             ELSE /\ ret' = OK
                  /\ exit_path' = IF is_new_tablet THEN "new_tablet"
                                  ELSE IF merged = "none" THEN "nothing_missed"
                                  ELSE "existing_tablet"
                  /\ tablet_infos' = Append(tablet_infos, TabletInfo(version))
                  /\ UNCHANGED << tablet, calls >>
    /\ pc' = "do_clone_exit"
    /\ UNCHANGED << reqVars, other_task, registry, migration_lock, locks, dirVars, is_new_tablet,
                    status, dir_guard, specified_version, missed_versions, peerVars,
                    xferVars, pending_rs_guards, finishVars >>

\* ------------------------------------------ leaving _do_clone; execute
\* The Defer remove_useless_dir deletes the directory unless status.ok().
RemoveUselessDir(guard, st) == guard /\ ~IsOk(st)

\* An unregister that would run on the successful return only.
UnregisterCalls_OnSuccess(reg) ==
    IF reg = "clone" /\ IsOk(ret) THEN << Call("unregister_transition", 0, 0, OK) >> ELSE << >>

\* The Defer of register_transition_tablet.
UnregisterCalls(reg) ==
    IF reg = "clone" THEN << Call("unregister_transition", 0, 0, OK) >> ELSE << >>

\* _do_clone returns: remove_useless_dir, the migration lock, unregister_transition_tablet.
DoCloneExit ==
    /\ pc = "do_clone_exit"
    /\ IF RemoveUselessDir(dir_guard, status)
       THEN /\ tablet_dir' = NoDir
            /\ calls' = Append(calls, Call("delete_directory", 0, 0, OK))
                        \o UnregisterCalls(registry)
       ELSE /\ tablet_dir' = tablet_dir
            /\ calls' = calls \o UnregisterCalls(registry)
    /\ migration_lock' = IF migration_lock = "reader" THEN "free" ELSE migration_lock
    /\ locks' = << >>
    /\ registry' = IF registry = "clone" THEN "free" ELSE registry
    /\ pc' = "update_visible_version"
    /\ UNCHANGED << reqVars, other_task, tablet, clone_dir, is_new_tablet, status, ret, exit_path,
                    dir_guard, specified_version, missed_versions, peerVars, xferVars,
                    pending_rs_guards, finishVars, tablet_infos >>

\* An execute() that would skip the update when _do_clone failed.
VisibleVersionCalls_OnSuccess(st) ==
    IF IsOk(st)
    THEN << Call("update_partitions_visible_version", 0,
                 << clone_req.partition_id, clone_req.version >>, OK) >>
    ELSE << >>

\* What execute() sends to update_partitions_visible_version after _do_clone.
VisibleVersionCalls(st) ==
    << Call("update_partitions_visible_version", 0,
            << clone_req.partition_id, clone_req.version >>, OK) >>

UpdatePartitionsVisibleVersion ==
    /\ pc = "update_visible_version"
    /\ calls' = calls \o VisibleVersionCalls(ret)
    /\ pc' = "done"
    /\ UNCHANGED << reqVars, other_task, registry, tablet, migration_lock, locks, dirVars,
                    is_new_tablet, status, ret, exit_path, dir_guard, specified_version,
                    missed_versions, peerVars, xferVars, pending_rs_guards, finishVars,
                    tablet_infos >>

\* ------------------------------------- another clone task of the same tablet
\* It registers the transition (it is refused, and nothing changes, while the
\* tablet is registered) ...
OtherTaskRegisters ==
    /\ other_task = "idle"
    /\ IsOk(RegisterResult(registry))
    /\ registry' = "other"
    /\ other_task' = "registered"
    /\ UNCHANGED << pc, clone_req, tablet, tablet0, migration_lock, locks, tablet_dir,
                    clone_dir, is_new_tablet, status, ret, dir_guard, specified_version,
                    missed_versions, peerVars, xferVars, pending_rs_guards, finishVars,
                    tablet_infos, exit_path, calls >>

\* ... and its Defer unregisters it when its _do_clone returns.
OtherTaskUnregisters ==
    /\ other_task = "registered"
    /\ registry' = IF registry = "other" THEN "free" ELSE registry
    /\ other_task' = "idle"
    /\ UNCHANGED << pc, clone_req, tablet, tablet0, migration_lock, locks, tablet_dir,
                    clone_dir, is_new_tablet, status, ret, dir_guard, specified_version,
                    missed_versions, peerVars, xferVars, pending_rs_guards, finishVars,
                    tablet_infos, exit_path, calls >>

Next ==
    \/ DebugPoints
    \/ RegisterTransition
    \/ GetTablet
    \/ TryLockMigration
    \/ ComputeMissedVersions
    \/ ObtainShardPath
    \/ CheckDestDir
    \/ MakeSnapshot
    \/ MakeSnapshotResult
    \/ BeginDownload
    \/ DownloadFile
    \/ DownloadBatch
    \/ ConvertRowsetIds
    \/ ReleaseSnapshot
    \/ MakeAndDownloadReturn
    \/ FinishCloneBegin
    \/ LinkFile
    \/ IngestBinlogMetas
    \/ AcquireLock
    \/ Merge
    \/ FinishCloneExit
    \/ LoadTablet
    \/ DeleteHeaderFile
    \/ SetTabletInfo
    \/ DoCloneExit
    \/ UpdatePartitionsVisibleVersion
    \/ OtherTaskRegisters
    \/ OtherTaskUnregisters

Spec == Init /\ [][Next]_vars

\* ------------------------------------------ the batch packing on its own
\* _batch_download_files on listings of up to MaxDataFiles data files of 10 MiB,
\* without a .hdr file, with a 1 MiB .hdr file listed last, or with it listed
\* first, and on listings of BATCH_FILE_NUM to MaxSmallFiles segment files of
\* 1 KiB, without a .hdr file or with it listed last.
DataStems == << "rs1_0", "rs2_0", "rs3_0", "rs4_0", "rs5_0", "rs6_0", "rs7_0", "rs8_0",
                "rs9_0", "rs10_0", "rs11_0" >>
DataFile(i) == << "", DataStems[i], "dat" >>
TenMiBFiles(k) == [i \in 1..k |-> F(DataFile(i), 10 * MiB, 1)]
Digits == << "0", "1", "2", "3", "4", "5", "6", "7", "8", "9" >>
SmallFile(i) == << "", "rs12_" \o Digits[(i \div 10) + 1] \o Digits[(i % 10) + 1], "dat" >>
SmallFiles(k) == [i \in 1..k |-> F(SmallFile(i), 1024, 1)]
PackListings ==
    { TenMiBFiles(k) : k \in 0..MaxDataFiles }
    \cup { Append(TenMiBFiles(k), F(HDR, MiB, 1)) : k \in 0..MaxDataFiles }
    \cup { << F(HDR, MiB, 1) >> \o TenMiBFiles(k) : k \in 1..MaxDataFiles }
    \cup { SmallFiles(k) : k \in BATCH_FILE_NUM..MaxSmallFiles }
    \cup { Append(SmallFiles(k), F(HDR, MiB, 1)) : k \in BATCH_FILE_NUM..MaxSmallFiles }

\* The task of a new tablet after _batch_download_files listed the remote
\* directory of its first peer and moved the .hdr entry to the end.
PackInit ==
    /\ pc = "download_batch"
    /\ clone_req = [tablet_id |-> "10001", schema_hash |-> "h1", replica_id |-> 2,
                    partition_id |-> "p1", version |-> 6, isset_version |-> TRUE,
                    src_backends |-> 1]
    /\ registry = "clone"
    /\ other_task = "idle"
    /\ tablet = NoTablet
    /\ tablet0 = [tablet |-> NoTablet, tablet_dir |-> NoDir]
    /\ migration_lock = "free"
    /\ locks = << >>
    /\ tablet_dir = EmptyDir
    /\ clone_dir = NoDir
    /\ is_new_tablet = TRUE
    /\ status = OK
    /\ ret = OK
    /\ dir_guard = TRUE
    /\ specified_version = 0
    /\ missed_versions = {}
    /\ allow_incremental_clone = FALSE
    /\ src = 1
    /\ snapshot_path = [peer |-> 1, slash |-> TRUE]
    /\ snapshot_result = "none"
    /\ mstatus = OK
    /\ after_release = "continue"
    /\ batch = TRUE
    /\ \E l \in PackListings : file_list = SwapHdrLast(l)
    /\ file_idx = 1
    /\ copy_size = 0
    /\ pending_rs_guards = FALSE
    /\ cloned_tablet_meta = {}
    /\ contain_binlog = FALSE
    /\ local_file_names = {}
    /\ clone_file_names = {}
    /\ linked_success_files = {}
    /\ fstatus = OK
    /\ merged = "none"
    /\ tablet_infos = << >>
    /\ release_result = "none"
    /\ attempt = [NoAttempt EXCEPT !.peer = 1, !.make = OK]
    /\ exit_path = "none"
    /\ calls = << Call("register_transition", 0, 0, OK), Call("make_snapshot", 1, {}, OK) >>

PackNext == DownloadBatch

PackSpec == PackInit /\ [][PackNext]_vars

\* The loop of _batch_download_files is not suspended for ever: an iteration that
\* can be taken is taken. (On the listings of 10 MiB files.)
PackLiveInit == PackInit /\ Len(file_list) <= MaxDataFiles + 1
PackLiveSpec == PackLiveInit /\ [][PackNext]_vars /\ WF_vars(PackNext)

\* ------------------------------- the clone of a tablet that is being written
\* Another thread publishes a version the tablet does not cover yet: it adds the
\* rowset under the tablet's header lock, which the task must not be holding.
PublishVersion ==
    /\ tablet.state = "RUNNING"
    /\ pc # "done"
    /\ \A i \in 1..Len(locks) : locks[i] # "header"
    /\ Cardinality({ v \in tablet.rowsets : v[3] = "published" }) < MaxPublished
    /\ \E ver \in 0..(clone_req.version + 1) :
          /\ \A v \in tablet.rowsets : ver < v[1] \/ v[2] < ver
          /\ tablet' = [tablet EXCEPT !.rowsets = @ \cup { << ver, ver, "published" >> }]
    /\ UNCHANGED << pc, clone_req, registry, tablet0, migration_lock, locks, tablet_dir,
                    clone_dir, is_new_tablet, status, ret, dir_guard, specified_version,
                    missed_versions, peerVars, xferVars, pending_rs_guards, finishVars,
                    tablet_infos, exit_path, other_task, calls >>

\* The task on a healthy local tablet with an empty tablet directory, nobody else
\* in the way, one candidate source backend.
PublishInit ==
    /\ Init
    /\ tablet.state = "RUNNING"
    /\ tablet_dir = EmptyDir /\ clone_dir = NoDir
    /\ migration_lock = "free"
    /\ registry = "free"
    /\ clone_req.src_backends = 1

PublishNext ==
    \/ DebugPoints
    \/ RegisterTransition
    \/ GetTablet
    \/ TryLockMigration
    \/ ComputeMissedVersions
    \/ MakeSnapshot
    \/ MakeSnapshotResult
    \/ BeginDownload
    \/ DownloadFile
    \/ DownloadBatch
    \/ ConvertRowsetIds
    \/ ReleaseSnapshot
    \/ MakeAndDownloadReturn
    \/ FinishCloneBegin
    \/ LinkFile
    \/ IngestBinlogMetas
    \/ AcquireLock
    \/ Merge
    \/ FinishCloneExit
    \/ SetTabletInfo
    \/ DoCloneExit
    \/ UpdatePartitionsVisibleVersion
    \/ PublishVersion

PublishSpec == PublishInit /\ [][PublishNext]_vars

\* ======================================================================
\* Properties
\* ======================================================================
CallsAt(op) == { i \in 1..Len(calls) : calls[i][1] = op }
MakeCalls == CallsAt("make_snapshot")
PeerCalls == MakeCalls \cup CallsAt("release_snapshot")
Appended(op) == Len(calls') = Len(calls) + 1 /\ calls'[Len(calls')][1] = op

\* register_transition_tablet succeeded.
Registered == \E i \in CallsAt("register_transition") : IsOk(calls[i][4])
\* _do_clone is returning `ret` / has returned / execute() has returned.
Returning == pc \in {"do_clone_exit", "update_visible_version", "done"}
Returned == pc \in {"update_visible_version", "done"}
Executed == pc = "done"
\* The task works on a tablet that was there and healthy when it started.
OnExistingPath == Registered /\ tablet0.tablet.state = "RUNNING"
\* The body of the peer loop is running on peer src.
InAttempt == pc \in {"make_snapshot_result", "download_begin", "download_file", "download_batch",
                      "convert", "release"}
\* The error the latest attempt ended with.
LastPeerError == IF IsOk(attempt.make) THEN attempt.transfer ELSE attempt.make

\* ---------------------------------------------------------------- C1
\* C1: on the EXISTING path, when the task returns a non-OK status the tablet's
\* metadata (replica_id, rowsets, binlog metas, cooldown_meta_id, delete bitmap,
\* cumulative layer point) and the set of files of the tablet directory are what
\* they were before the task started.
C1_AllOrNothing ==
    (Returned /\ OnExistingPath /\ ~IsOk(ret)) =>
        /\ tablet = tablet0.tablet
        /\ FileNames(tablet_dir) = FileNames(tablet0.tablet_dir)

\* ---------------------------------------------------------------- C2
\* C2: after register_transition succeeded, unregister_transition is called exactly
\* once, when _do_clone returns, whatever the path it returns by; it is never
\* called without a successful registration.
C2_UnregisterOnce ==
    [](LET n == Cardinality(CallsAt("unregister_transition"))
       IN /\ ~Registered => n = 0
          /\ (Registered /\ ~Returned) => (n = 0 /\ registry = "clone")
          /\ (Registered /\ Returned) => (n = 1 /\ registry # "clone"))

C2_Witness ==
    /\ Executed /\ Registered
    /\ exit_path = "merge" /\ ~IsOk(ret)
    /\ Cardinality(CallsAt("unregister_transition")) = 1

\* ---------------------------------------------------------------- C3
\* C3: execute() issues exactly one update_partitions_visible_version with
\* {partition_id -> version} of the request, as its last call, after the
\* unregister of the attempt, whatever _do_clone returned.
C3_VisibleVersionUpdate ==
    [](LET upd == CallsAt("update_partitions_visible_version")
       IN /\ ~Executed => upd = {}
          /\ Executed =>
                /\ upd = {Len(calls)}
                /\ calls[Len(calls)][3] = << clone_req.partition_id, clone_req.version >>
                /\ \A j \in CallsAt("unregister_transition") : j < Len(calls))

C3_Witness ==
    /\ Executed
    /\ exit_path = "register_transition" /\ ret = "TRANSITION_BUSY"
    /\ Cardinality(CallsAt("update_partitions_visible_version")) = 1

\* ---------------------------------------------------------------- C4
\* C4: make_snapshot goes to the peers in request order, each peer at most once;
\* peer k+1 is asked only after the attempt on peer k failed at make_snapshot or
\* at the transfer; after a peer whose transfer and convert_rowset_ids succeeded
\* no further peer is contacted.
C4_PeerOrder ==
    /\ [](\A i \in MakeCalls :
             /\ calls[i][2] = Cardinality({ j \in MakeCalls : j <= i })
             /\ calls[i][2] <= clone_req.src_backends)
    /\ [][(Appended("make_snapshot") /\ src > 1) =>
             /\ attempt.peer = src - 1
             /\ attempt.convert = "none"
             /\ ~IsOk(LastPeerError) /\ LastPeerError # "none"]_vars
    /\ [][attempt.convert = OK => attempt' = attempt]_vars

C4_Witness ==
    /\ Returned /\ clone_req.src_backends = 2
    /\ Cardinality(MakeCalls) = 2
    /\ attempt.peer = 2 /\ attempt.convert = OK

\* ---------------------------------------------------------------- C5
\* C5: every successful make_snapshot is followed by exactly one release_snapshot
\* to the same peer with the path of that snapshot, before the next make_snapshot
\* and before the loop is left; a failed make_snapshot gets no release_snapshot.
C5_ReleasePairing ==
    [](/\ \A i \in CallsAt("release_snapshot") :
             \E j \in MakeCalls :
                /\ j < i /\ IsOk(calls[j][4])
                /\ calls[i][2] = calls[j][2]
                /\ calls[i][3] = [peer |-> calls[j][2], slash |-> TRUE]
                /\ \A k \in PeerCalls : ~(j < k /\ k < i)
       /\ \A j \in MakeCalls :
             IsOk(calls[j][4]) =>
                LET later == { k \in PeerCalls : k > j }
                IN IF later = {}
                   THEN InAttempt /\ src = calls[j][2]
                   ELSE calls[Min(later)][1] = "release_snapshot")

C5_Witness ==
    /\ Returned
    /\ \E j1, j2 \in MakeCalls :
          /\ j1 < j2 /\ IsOk(calls[j1][4]) /\ IsOk(calls[j2][4])
    /\ Cardinality(CallsAt("release_snapshot")) = 2
    /\ ~IsOk(ret)

\* ---------------------------------------------------------------- C6
\* C6: what release_snapshot returns has no effect on the clone: the step that
\* releases leaves the loop's status, the tablet, the directories and the task's
\* result as they are, and the peer tried next depends on the attempt only.
C6_ReleaseOutcomeIgnored ==
    [][pc = "release" =>
          /\ mstatus' = mstatus
          /\ src' = IF after_release = "continue" THEN src + 1 ELSE src
          /\ pc' = IF after_release = "continue" /\ src < clone_req.src_backends
                   THEN "make_snapshot" ELSE "mads_return"
          /\ UNCHANGED << tablet, tablet_dir, clone_dir, status, ret, after_release,
                          attempt, pending_rs_guards, allow_incremental_clone,
                          tablet_infos, registry, migration_lock >>]_vars

C6_Witness ==
    /\ Executed /\ release_result = "RPC_ERROR"
    /\ IsOk(ret) /\ exit_path = "existing_tablet"

\* ---------------------------------------------------------------- C7
\* Every peer of a non-empty list was tried and the last one failed too.
AllPeersFailed ==
    /\ clone_req.src_backends >= 1
    /\ Cardinality(MakeCalls) = clone_req.src_backends
    /\ attempt.peer = clone_req.src_backends
    /\ attempt.convert = "none"
    /\ ~IsOk(LastPeerError) /\ LastPeerError # "none"
    /\ pc \notin {"make_snapshot"} /\ ~InAttempt

\* C7: when the attempt on every peer fails, _make_and_download_snapshots returns
\* the error of the last peer, and the task returns that error from there,
\* without merging (or loading) anything.
C7_LastPeerErrorReturned ==
    [](AllPeersFailed =>
           /\ mstatus = LastPeerError
           /\ merged = "none"
           /\ CallsAt("revise") = {} /\ CallsAt("ingest_binlog_metas") = {}
           /\ tablet_infos = << >>
           /\ Returning => (ret = LastPeerError /\ exit_path = "make_and_download_snapshots"))

C7_Witness ==
    /\ Executed /\ AllPeersFailed
    /\ clone_req.src_backends = 2
    /\ \E i \in MakeCalls : calls[i][2] = 1 /\ calls[i][4] = "RPC_ERROR"
    /\ ret = "INTERNAL_ERROR"

\* ---------------------------------------------------------------- C8
\* C8 as stated: once a capacity check failed during a transfer no other peer is
\* contacted and the task returns EXCEEDED_LIMIT.
C8_CapacityStopsTask ==
    [][attempt.transfer = "EXCEEDED_LIMIT" =>
          /\ attempt'.peer = attempt.peer
          /\ Returning' => ret' = "EXCEEDED_LIMIT"]_vars

\* C8: a capacity check that fails during a transfer ends the attempt on that peer
\* with EXCEEDED_LIMIT; the snapshot is released and the loop goes on with the next
\* peer, if there is one; the task returns EXCEEDED_LIMIT from the peer loop exactly
\* when the attempt on the last peer ended with it.
C8_CapacityEndsAttempt ==
    /\ []((attempt.transfer = "EXCEEDED_LIMIT" /\ pc = "release") =>
             (mstatus = "EXCEEDED_LIMIT" /\ after_release = "continue"))
    /\ [][(attempt.transfer = "EXCEEDED_LIMIT" /\ pc = "release") =>
             /\ Appended("release_snapshot")
             /\ src' = src + 1
             /\ pc' = IF src < clone_req.src_backends THEN "make_snapshot"
                      ELSE "mads_return"]_vars
    /\ []((Returning /\ exit_path = "make_and_download_snapshots") =>
             (ret = "EXCEEDED_LIMIT" <=>
                 (attempt.peer = clone_req.src_backends
                  /\ attempt.transfer = "EXCEEDED_LIMIT")))

C8_Witness ==
    /\ pc = "make_snapshot" /\ src = 2
    /\ attempt.peer = 1 /\ attempt.transfer = "EXCEEDED_LIMIT"

\* ---------------------------------------------------------------- C9
\* C9: when a clone of an existing tablet that created <tablet_dir>/clone has
\* returned, that directory is gone.
C9_StagingNeverLeaks ==
    (Returned /\ OnExistingPath /\ attempt.transfer \notin {"none", "IO_ERROR"}) =>
        ~clone_dir.exists

\* ---------------------------------------------------------------- C10
\* C10: on the NEW path, when the task returns an error after the shard path was
\* obtained (the download, the load, the lookup of the loaded tablet, the delete
\* of the .hdr file, the report or the reported version failed), the tablet
\* directory is gone.
C10_FailedNewCloneRemovesDir ==
    (/\ Returned /\ is_new_tablet /\ dir_guard
     /\ exit_path \in {"make_and_download_snapshots", "convert_rowset_ids", "load_tablet",
                       "tablet_not_found", "delete_header", "report_tablet_info",
                       "unexpected_version"}) =>
        ~tablet_dir.exists

\* ---------------------------------------------------------------- C11
\* _finish_clone has run and returned.
FinishReturned ==
    /\ pc \in {"set_tablet_info", "do_clone_exit", "update_visible_version", "done"}
    /\ OnExistingPath
    /\ (merged # "none" \/ ~IsOk(fstatus))

C12_ReportedVersionCovers ==
    (Returned /\ IsOk(ret) /\ clone_req.isset_version) =>
        /\ Len(tablet_infos) = 1
        /\ tablet_infos[1].version >= clone_req.version
        /\ get_missed_versions(tablet.rowsets, clone_req.version) = {}

C12_Witness ==
    /\ Executed /\ IsOk(ret) /\ clone_req.isset_version
    /\ exit_path = "existing_tablet" /\ merged = "incremental"
    /\ tablet_infos[1].version >= clone_req.version
    /\ get_missed_versions(tablet0.tablet.rowsets, clone_req.version) # {}

\* ---------------------------------------------------------------- C13
\* C13: when the task returns OK, the replica_id of the local tablet is the
\* replica_id of the request, whatever it was before (lower, equal or higher).
C13_ReplicaIdStamped ==
    (Returned /\ IsOk(ret)) => tablet.replica_id = clone_req.replica_id

\* ---------------------------------------------------------------- C14
HeaderFiles(dir) == { n \in FileNames(dir) : EndsWith(n, "hdr") }

\* C14: when the task returns OK, the tablet directory holds no .hdr file. On the
\* EXISTING path the staged header is gone before the first file is linked and is
\* never linked; on the NEW path it is deleted once the tablet is loaded.
C14_NoHeaderAfterClone ==
    /\ (Returned /\ IsOk(ret)) => HeaderFiles(tablet_dir) = {}
    /\ (pc \in {"link", "ingest", "lock", "merge"}) => HeaderFiles(clone_dir) = {}
    /\ { n \in linked_success_files : EndsWith(n, "hdr") } = {}
    /\ pc = "delete_header" => (tablet.state = "RUNNING" /\ HDR \in FileNames(tablet_dir))

C14_Witness ==
    /\ Executed /\ IsOk(ret)
    /\ exit_path = "existing_tablet"
    /\ linked_success_files # {}
    /\ HeaderFiles(tablet_dir) = {}

\* ---------------------------------------------------------------- C15
\* Where a staged file is linked to.
StagedDest(clone_file) ==
    IF IsBinlogFile(clone_file) THEN BinlogDest(clone_file) ELSE clone_file

\* C15: the merge of _finish_clone runs, and a finish step that succeeded ends,
\* with every staged file other than the header present in the tablet directory
\* (linked by the task or there before).
C15_StagedFilesLinked ==
    (\/ pc \in {"lock", "merge"}
     \/ (pc = "finish_exit" /\ merged # "none" /\ IsOk(fstatus))) =>
        \A f \in FileNames(clone_dir) :
           ~EndsWith(f, "hdr") => StagedDest(f) \in FileNames(tablet_dir)

\* ---------------------------------------------------------------- C16
\* C16: a step changes the cumulative layer point of a tablet exactly when it is
\* a full merge that succeeds, and then to K_INVALID_CUMULATIVE_POINT; an
\* incremental merge and a failed full merge leave it as it is.
C16_CumulativePointReset ==
    [][tablet.state = "RUNNING" =>
          tablet'.cumulative_layer_point =
             IF pc = "merge" /\ merged' = "full" /\ IsOk(fstatus')
             THEN K_INVALID_CUMULATIVE_POINT
             ELSE tablet.cumulative_layer_point]_vars

C16_Witness ==
    /\ pc = "finish_exit" /\ merged = "full" /\ IsOk(fstatus)
    /\ tablet0.tablet.cumulative_layer_point # K_INVALID_CUMULATIVE_POINT
    /\ tablet.cumulative_layer_point = K_INVALID_CUMULATIVE_POINT

\* ---------------------------------------------------------------- C17
\* The task found nothing missed on an existing tablet.
NothingMissedCase ==
    /\ OnExistingPath /\ migration_lock # "writer"
    /\ missed_versions = {}
    /\ pc \in {"set_tablet_info", "do_clone_exit", "update_visible_version", "done"}

\* No peer was asked, nothing was transferred, none of the locks of _finish_clone
\* is or was held.
NoCloneWork ==
    /\ MakeCalls = {} /\ attempt = NoAttempt /\ copy_size = 0
    /\ \A i \in DOMAIN locks : locks[i] = "migration"
    /\ CallsAt("revise") = {} /\ CallsAt("ingest_binlog_metas") = {}
    /\ merged = "none"
    /\ tablet_dir = tablet0.tablet_dir

\* C17 as stated: when nothing is missed the task does no clone work, leaves the
\* local tablet unchanged and returns OK with the tablet's version reported.
C17_NothingMissedIsNoOp ==
    NothingMissedCase =>
        /\ NoCloneWork
        /\ tablet = tablet0.tablet
        /\ Returning =>
              /\ IsOk(ret)
              /\ Len(tablet_infos) = 1
              /\ tablet_infos[1].replica_id = clone_req.replica_id
              /\ tablet_infos[1].version = ReportedVersion(tablet.rowsets)

\* C17: when nothing is missed up to the clone target, the task does no clone
\* work and changes nothing of the local tablet but its replica_id, raised to the
\* request's when it was lower; it returns what the report gives: OK with the
\* tablet's version reported, or the error of a failed report, or the
\* unexpected-version error when the version reported is below the requested one,
\* which happens only for a merge-on-write tablet whose target was lowered.
C17_NothingMissedShortcut ==
    NothingMissedCase =>
        /\ NoCloneWork
        /\ tablet = [tablet0.tablet EXCEPT
                        !.replica_id = IF @ < clone_req.replica_id
                                       THEN clone_req.replica_id ELSE @]
        /\ Returning =>
              /\ ret \in {OK, "NOT_FOUND", "INTERNAL_ERROR"}
              /\ IsOk(ret) =>
                    /\ Len(tablet_infos) = 1
                    /\ tablet_infos[1].replica_id = clone_req.replica_id
                    /\ tablet_infos[1].version = ReportedVersion(tablet.rowsets)
              /\ ~IsOk(ret) => tablet_infos = << >>
              /\ ret = "INTERNAL_ERROR" =>
                    /\ tablet.mow /\ specified_version < clone_req.version
                    /\ clone_req.isset_version
                    /\ ReportedVersion(tablet.rowsets) < clone_req.version
              /\ ret = "NOT_FOUND" => exit_path = "report_tablet_info"

C17_Witness ==
    /\ Executed /\ NothingMissedCase /\ IsOk(ret)
    /\ tablet.replica_id # tablet0.tablet.replica_id
    /\ Len(tablet_infos) = 1

\* ---------------------------------------------------------------- C18
\* C18: when the migration lock of the local tablet is held exclusively, the step
\* that tries the lock is enabled (the task does not wait) and ends _do_clone with
\* TRY_LOCK_FAILED, leaving the tablet and the lock as they are; the task then has
\* asked no peer, has not touched the tablet (its replica_id included) or its
\* directory, and has unregistered the transition.
C18_TryLockFailsFast ==
    /\ []((pc = "try_lock" /\ migration_lock = "writer") => ENABLED TryLockMigration)
    /\ [][(pc = "try_lock" /\ migration_lock = "writer") =>
             /\ pc' = "do_clone_exit" /\ ret' = "TRY_LOCK_FAILED"
             /\ UNCHANGED << tablet, migration_lock, tablet_dir, clone_dir, calls >>]_vars
    /\ []((OnExistingPath /\ migration_lock = "writer" /\ Returning) =>
             /\ ret = "TRY_LOCK_FAILED"
             /\ MakeCalls = {} /\ attempt = NoAttempt
             /\ tablet = tablet0.tablet
             /\ tablet_dir = tablet0.tablet_dir
             /\ Returned =>
                   (Cardinality(CallsAt("unregister_transition")) = 1 /\ registry # "clone"))

C18_Witness ==
    /\ Executed /\ OnExistingPath /\ migration_lock = "writer"
    /\ ret = "TRY_LOCK_FAILED"
    /\ tablet0.tablet.replica_id < clone_req.replica_id
    /\ tablet.replica_id = tablet0.tablet.replica_id
    /\ Cardinality(CallsAt("unregister_transition")) = 1

\* ---------------------------------------------------------------- C19
\* This task is between its successful register_transition and its unregister.
InTransition == Registered /\ CallsAt("unregister_transition") = {}
\* The registration of this task was refused.
Refused == \E i \in CallsAt("register_transition") : ~IsOk(calls[i][4])

\* C19: of the clone tasks of one tablet at most one is between its successful
\* register_transition and its unregister_transition; a task whose registration
\* is refused returns that error at once: it does not look up or change the
\* tablet, asks no peer, and does not unregister: the other task's registration
\* ends only by that task's own unregister.
C19_OneCloneInTransition ==
    /\ [](~(InTransition /\ other_task = "registered"))
    /\ [](InTransition => registry = "clone")
    /\ [](other_task = "registered" => registry = "other")
    /\ [][(pc = "register" /\ pc' # pc /\ registry # "free") =>
             /\ pc' = "update_visible_version" /\ ret' = "TRANSITION_BUSY"
             /\ UNCHANGED << registry, other_task, tablet, is_new_tablet >>]_vars
    /\ [](Refused =>
             /\ ~Registered /\ Returned /\ ret = "TRANSITION_BUSY"
             /\ tablet = tablet0.tablet /\ tablet_dir = tablet0.tablet_dir
             /\ ~is_new_tablet
             /\ MakeCalls = {} /\ CallsAt("drop_tablet") = {}
             /\ CallsAt("unregister_transition") = {})
    /\ [][(other_task = "registered" /\ other_task' # "registered") =>
             UNCHANGED << pc, calls >>]_vars

C19_Witness ==
    /\ Executed /\ Refused
    /\ other_task = "registered" /\ registry = "other"
    /\ ret = "TRANSITION_BUSY"

\* ---------------------------------------------------------------- C20
\* The task took the NEW path: no usable local tablet at the start.
TookNewPath == tablet0.tablet.state \in {"NONE", "NOTREADY"}

\* C20: when the request carries a version and the version reported after the
\* clone is lower, _set_tablet_info ends with the unexpected-version internal
\* error (or, when the report itself failed, with that error), never with OK; with
\* the unexpected-version error it calls drop_tablet exactly when the task took
\* the NEW path (a dropped NOTREADY tablet included), and leaves an existing
\* tablet as it is.
C20_UnexpectedVersion ==
    /\ [](pc = "set_tablet_info" => (is_new_tablet <=> TookNewPath))
    /\ [][(pc = "set_tablet_info" /\ pc' # pc) =>
             LET low == clone_req.isset_version
                        /\ ReportedVersion(tablet.rowsets) < clone_req.version
             IN /\ low => (ret' = "INTERNAL_ERROR" \/ exit_path' = "report_tablet_info")
                /\ low => tablet_infos' = tablet_infos
                /\ exit_path' = "unexpected_version" =>
                      /\ low /\ ret' = "INTERNAL_ERROR"
                      /\ Appended("drop_tablet") <=> TookNewPath
                      /\ ~TookNewPath => (tablet' = tablet /\ calls' = calls)
                      /\ TookNewPath =>
                            \/ (IsOk(calls'[Len(calls')][4]) /\ tablet'.state = "SHUTDOWN")
                            \/ (~IsOk(calls'[Len(calls')][4]) /\ tablet' = tablet)
                /\ exit_path' # "unexpected_version" => UNCHANGED << tablet, calls >>]_vars

C20_Witness ==
    /\ Executed /\ exit_path = "unexpected_version" /\ ret = "INTERNAL_ERROR"
    /\ tablet0.tablet.state = "NOTREADY"
    /\ tablet.state = "SHUTDOWN"
    /\ Cardinality(CallsAt("drop_tablet")) = 2

\* ---------------------------------------------------------------- C21
\* C21: the caller's list stays as it was until _do_clone returns; when it returns
\* OK the list holds exactly one TTabletInfo, with the tablet_id, the replica_id and
\* the schema_hash of the request and the version reported for the tablet; when it
\* returns an error the list holds nothing.
C21_OneTabletInfoOnSuccess ==
    /\ ~Returning => tablet_infos = << >>
    /\ (Returning /\ ~IsOk(ret)) => tablet_infos = << >>
    /\ (Returning /\ IsOk(ret)) =>
          tablet_infos = << [tablet_id |-> clone_req.tablet_id,
                             replica_id |-> clone_req.replica_id,
                             schema_hash |-> clone_req.schema_hash,
                             version |-> ReportedVersion(tablet.rowsets)] >>

\* Local [0-1],[2-5],[6-8], requested version 7: nothing is missed, version 8 is
\* reported; the local replica_id was above the requested one.
C21_Witness ==
    /\ Executed /\ IsOk(ret) /\ exit_path = "nothing_missed"
    /\ clone_req.version = 7
    /\ tablet0.tablet.replica_id > clone_req.replica_id
    /\ Len(tablet_infos) = 1 /\ tablet_infos[1].version = 8

\* ---------------------------------------------------------------- C22
\* A transfer function is fetching the files of file_list.
InTransfer == pc \in {"download_file", "download_batch"}

\* The files of the list other than the .hdr file are in the directory, whole.
OthersDelivered(dir, list) ==
    \A i \in 1..Len(list) :
       ~EndsWith(list[i].name, "hdr") =>
          /\ list[i].name \in FileNames(dir)
          /\ dir.files[list[i].name].size = list[i].size

HdrPresent(dir) == dir.exists /\ HeaderFiles(dir) # {}

\* C22: in both strategies, in every state of a transfer and in the state any of
\* its requests leaves behind (the failed and the last request included), the
\* staging directory holds the .hdr file only when it holds every other listed
\* file, whole.
C22_HeaderDeliveredLast ==
    /\ [](InTransfer => (HdrPresent(Staging) => OthersDelivered(Staging, file_list)))
    /\ [][InTransfer => (HdrPresent(Staging') => OthersDelivered(Staging', file_list))]_vars

\* The listing had the .hdr file before a data file; the batch strategy has
\* fetched the other three files and the .hdr file after them.
C22_Witness ==
    /\ pc = "download_batch" /\ batch
    /\ Len(file_list) = 4 /\ file_idx = 5
    /\ file_list[4].name = HDR
    /\ HDR \in FileNames(Staging)

\* ---------------------------------------------------------------- C23
\* The last version of the cloned header.
ClonedMaxEnd(metas) == CHOOSE e \in { m[2] : m \in metas } : \A m \in metas : m[2] <= e

\* A local rowset starts at or below the cloned max version and ends above it.
Straddles(rowsets, metas) ==
    metas # {} /\ \E v \in rowsets : v[1] <= ClonedMaxEnd(metas) /\ ClonedMaxEnd(metas) < v[2]

\* C23: a full merge that finds a local rowset straddling the cloned max version
\* ends with an internal error and leaves the tablet as the merge found it:
\* rowsets, cooldown_meta_id, delete bitmap and cumulative layer point unchanged.
C23_VersionCrossLeavesTablet ==
    [][(pc = "merge" /\ ~allow_incremental_clone
        /\ Straddles(tablet.rowsets, cloned_tablet_meta')) =>
           /\ fstatus' = "INTERNAL_ERROR"
           /\ merged' = "full"
           /\ tablet'.rowsets = tablet.rowsets
           /\ tablet'.cooldown_meta_id = tablet.cooldown_meta_id
           /\ tablet'.delete_bitmap = tablet.delete_bitmap
           /\ tablet'.cumulative_layer_point = tablet.cumulative_layer_point
           /\ tablet' = tablet]_vars

\* Local [0-1],[2-3],[5-8] (merge-on-write), cloned [0-1],[2-4],[5-6]: [5-8] straddles 6.
C23_Witness ==
    /\ pc = "finish_exit" /\ merged = "full" /\ fstatus = "INTERNAL_ERROR"
    /\ cloned_tablet_meta = { <<0, 1>>, <<2, 4>>, <<5, 6>> }
    /\ tablet.rowsets = L4 /\ tablet.mow
    /\ Straddles(tablet.rowsets, cloned_tablet_meta)
    /\ tablet.cooldown_meta_id = "local" /\ tablet.delete_bitmap = {"local"}
    /\ tablet.cumulative_layer_point = 2

\* ---------------------------------------------------------------- C24
\* <tablet_dir>/_binlog/<stem>.dat for a .binlog file, .idx for a .binlog-index file.
RenamedBinlog(f) ==
    << "_binlog", f[2], IF f[3] = "binlog" THEN "dat" ELSE "idx" >>

\* The binlog files that were under <tablet_dir>/_binlog before the task.
OldBinlogFiles == { n \in FileNames(tablet0.tablet_dir) : n[1] = "_binlog" }

\* C24: with binlog metas in the snapshot, the link loop treats a staged .binlog or
\* .binlog-index file by its renamed destination under _binlog: absent, the file
\* is hard-linked there (or the link fails and the step ends); present with the
\* same md5sum, nothing is linked and the loop goes on; present with another
\* md5sum, the step ends with an internal error (an I/O error when the file system
\* could not answer). A file that was under _binlog before the task is never
\* replaced or deleted.
C24_BinlogDestination ==
    /\ [][(pc = "link" /\ contain_binlog /\ clone_file_names' # clone_file_names) =>
             LET f == CHOOSE x \in clone_file_names \ clone_file_names' : TRUE
                 to == RenamedBinlog(f)
             IN (f[3] \in {"binlog", "binlog-index"} /\ f \notin local_file_names) =>
                   IF to \notin FileNames(tablet_dir)
                   THEN \/ /\ tablet_dir' = PutFile(tablet_dir, to, clone_dir.files[f])
                           /\ to \in linked_success_files'
                           /\ IsOk(fstatus') /\ pc' = "link"
                        \/ /\ tablet_dir' = tablet_dir
                           /\ fstatus' = "IO_ERROR" /\ pc' = "finish_exit"
                   ELSE IF tablet_dir.files[to].md5 = clone_dir.files[f].md5
                   THEN \/ /\ UNCHANGED << tablet_dir, linked_success_files, fstatus >>
                           /\ pc' = "link"
                        \/ /\ UNCHANGED << tablet_dir, linked_success_files >>
                           /\ fstatus' = "IO_ERROR" /\ pc' = "finish_exit"
                   ELSE /\ UNCHANGED << tablet_dir, linked_success_files >>
                        /\ fstatus' \in {"INTERNAL_ERROR", "IO_ERROR"}
                        /\ pc' = "finish_exit"]_vars
    /\ [](OnExistingPath =>
             \A n \in OldBinlogFiles :
                /\ n \in FileNames(tablet_dir)
                /\ tablet_dir.files[n] = tablet0.tablet_dir.files[n])

\* _binlog/rs5.dat was there with another md5sum: the finish step has ended with
\* the internal error, the file is as it was, and the .binlog-index file that had
\* been linked before is gone again.
C24_Witness ==
    /\ Returned /\ exit_path = "finish_clone" /\ ret = "INTERNAL_ERROR"
    /\ tablet0.tablet_dir = LD4.tablet
    /\ linked_success_files = { << "_binlog", "rs5", "idx" >> }
    /\ tablet_dir = tablet0.tablet_dir

\* ---------------------------------------------------------------- C25
\* The versions up to `upto` that no rowset of the tablet covers.
Uncovered(rowsets, upto) ==
    { i \in 0..upto : \A v \in rowsets : i < v[1] \/ v[2] < i }

\* C25: an incremental merge removes no rowset and changes nothing else of the
\* tablet; when the cloned header has a rowset meta for every version missing
\* locally up to the merge's version and the merge succeeds, it adds exactly one
\* rowset per missing version; when a missing version has no rowset meta it ends
\* with an internal error and adds nothing; a merge that fails adds nothing.
C25_IncrementalOnlyAdds ==
    [][(pc = "merge" /\ allow_incremental_clone) =>
          LET missing == Uncovered(tablet.rowsets, specified_version)
              added == tablet'.rowsets \ tablet.rowsets
          IN /\ merged' = "incremental"
             /\ tablet.rowsets \subseteq tablet'.rowsets
             /\ tablet' = [tablet EXCEPT !.rowsets = tablet'.rowsets]
             /\ IF \E i \in missing : << i, i >> \notin cloned_tablet_meta'
                THEN fstatus' = "INTERNAL_ERROR" /\ added = {}
                ELSE IF IsOk(fstatus')
                THEN /\ { << v[1], v[2] >> : v \in added } = { << i, i >> : i \in missing }
                     /\ Cardinality(added) = Cardinality(missing)
                     /\ Uncovered(tablet'.rowsets, specified_version) = {}
                ELSE added = {}]_vars

\* Local [0-1],[2-4], version 6, cloned header [5-5],[6-6]: two rowsets added,
\* the tablet covers [0-6].
C25_Witness ==
    /\ pc = "finish_exit" /\ merged = "incremental" /\ IsOk(fstatus)
    /\ specified_version = 6
    /\ cloned_tablet_meta = { <<5, 5>>, <<6, 6>> }
    /\ tablet.rowsets = L1 \cup { <<5, 5, "cloned">>, <<6, 6, "cloned">> }
    /\ ReportedVersion(tablet.rowsets) = 6

\* ---------------------------------------------------------------- C26
\* C26: in the per-file strategy the loop goes on to the next file only when the
\* file is in the staging directory with the size HEAD announced; a download
\* that wrote another size ends the attempt with an internal error and `continue`;
\* after such an attempt the snapshot is released and the next peer of the
\* request is asked, or, when there is none, the error is returned; an attempt
\* that succeeds afterwards leaves the peer loop with OK.
C26_TruncatedDownloadMovesOn ==
    /\ [][(pc = "download_file" /\ file_idx <= Len(file_list)) =>
             LET e == file_list[file_idx]
                 there == e.name \in FileNames(Staging')
             IN /\ file_idx' = file_idx + 1 =>
                      (there /\ Staging'.files[e.name].size = e.size /\ pc' = "download_file")
                /\ (there /\ Staging'.files[e.name].size # e.size) =>
                      /\ pc' = "release" /\ file_idx' = 1
                      /\ attempt'.transfer = "INTERNAL_ERROR"
                      /\ mstatus' = "INTERNAL_ERROR"
                      /\ after_release' = "continue"]_vars
    /\ [][(pc = "release" /\ attempt.transfer = "INTERNAL_ERROR") =>
             /\ Appended("release_snapshot")
             /\ IF src < clone_req.src_backends
                THEN pc' = "make_snapshot" /\ src' = src + 1
                ELSE pc' = "mads_return" /\ mstatus' = "INTERNAL_ERROR"]_vars
    /\ [](pc = "mads_return" /\ IsOk(attempt.convert) => (IsOk(mstatus) /\ attempt.peer = src))

\* The download from peer 1 wrote a short file; peer 1's snapshot was released and
\* peer 2 is about to be asked.
C26_Witness ==
    /\ pc = "make_snapshot" /\ src = 2
    /\ attempt.peer = 1 /\ attempt.transfer = "INTERNAL_ERROR"
    /\ \E n \in FileNames(Staging) : Staging.files[n].md5 = 0
    /\ \E i \in CallsAt("release_snapshot") : calls[i][2] = 1

\* ---------------------------------------------------------------- C27
SevenFiles == TenMiBFiles(7)
SevenFilesAndHdr == Append(TenMiBFiles(7), F(HDR, MiB, 1))

\* A batch request succeeded: it fetched the files file_idx .. file_idx' - 1.
BatchFetched == pc = "download_batch" /\ pc' = "download_batch" /\ file_idx' # file_idx

\* C27 as stated: seven 10 MiB files go into one batch of exactly 7 files; with a
\* 1 MiB .hdr file after them the .hdr file is fetched in a batch of its own.
C27_SevenInOneBatch ==
    [][BatchFetched =>
          /\ file_list = SevenFiles => (file_idx = 1 /\ file_idx' = 8)
          /\ file_list = SevenFilesAndHdr =>
                (file_list[file_idx].name = HDR <=> file_idx' = Len(file_list) + 1)]_vars

\* C27, amended: the last file of the list is always fetched in a batch of its own
\* and a batch holds the files fetched so far and no others; seven 10 MiB files go
\* in two batches, the first six and the seventh; with a 1 MiB .hdr file after
\* them the first batch holds exactly the seven data files and the second the
\* .hdr file.
C27_LastFileApart ==
    [][BatchFetched =>
          /\ file_idx' = Len(file_list) + 1 => file_idx = Len(file_list)
          /\ FileNames(Staging') = { file_list[i].name : i \in 1..(file_idx' - 1) }
          /\ file_list = SevenFiles =>
                << file_idx, file_idx' >> \in { << 1, 7 >>, << 7, 8 >> }
          /\ file_list = SevenFilesAndHdr =>
                /\ << file_idx, file_idx' >> \in { << 1, 8 >>, << 8, 9 >> }
                /\ file_list[8].name = HDR]_vars

\* Seven 10 MiB files: the first batch brought six of them, the seventh is still
\* to be fetched.
C27_Witness ==
    /\ pc = "download_batch" /\ file_list = SevenFiles /\ file_idx = 7
    /\ Cardinality(FileNames(Staging)) = 6

\* ---------------------------------------------------------------- C28
\* The fixed order of the locks of the EXISTING finish path.
LockOrder == << "migration", "base_compaction", "cumulative_compaction", "cold_compaction",
                "build_inverted_index", "push", "rowset_update", "header" >>

IsPrefix(s, t) == Len(s) <= Len(t) /\ \A i \in 1..Len(s) : s[i] = t[i]

\* C28: the locks the task holds are always the first k locks of the fixed order,
\* acquired one at a time in that order (a lock is requested only when exactly the
\* locks before it are held) and never re-acquired; a merge starts with all eight
\* held and ends, the reset of the cumulative point included, with all eight
\* still held; they are released only afterwards, when _finish_clone returns.
C28_FixedLockOrder ==
    /\ [](IsPrefix(locks, LockOrder))
    /\ [][Len(locks') > Len(locks) =>
             /\ Len(locks') = Len(locks) + 1
             /\ IsPrefix(locks, locks')
             /\ locks'[Len(locks')] = LockOrder[Len(locks) + 1]]_vars
    /\ [](pc = "merge" => locks = LockOrder)
    /\ [][pc = "merge" => (locks' = LockOrder /\ pc' = "finish_exit")]_vars
    /\ [][(/\ tablet0.tablet.state = "RUNNING"
            /\ \/ merged' # merged
               \/ tablet'.rowsets # tablet.rowsets
               \/ tablet'.cumulative_layer_point # tablet.cumulative_layer_point)
             => (pc = "merge" /\ locks = LockOrder /\ locks' = LockOrder)]_vars
    /\ [][Len(locks') < Len(locks) => pc \in {"finish_exit", "do_clone_exit"}]_vars

\* A full merge has succeeded and reset the cumulative layer point; all eight locks
\* are still held.
C28_Witness ==
    /\ pc = "finish_exit" /\ merged = "full" /\ IsOk(fstatus)
    /\ locks = LockOrder
    /\ tablet.cumulative_layer_point = K_INVALID_CUMULATIVE_POINT
    /\ tablet0.tablet.cumulative_layer_point # K_INVALID_CUMULATIVE_POINT

\* ---------------------------------------------------------------- C29
\* The seven locks of _finish_clone are all held.
HoldsSevenLocks(held) ==
    { "base_compaction", "cumulative_compaction", "cold_compaction",
      "build_inverted_index", "push", "rowset_update", "header" }
       \subseteq { held[i] : i \in 1..Len(held) }

\* C29: on a tablet that existed when the task started, every step that changes
\* the tablet's replica_id, cooldown_meta_id, delete bitmap, rowsets or cumulative
\* layer point starts and ends with the seven locks held.
C29_MutationsUnderLocks ==
    [][(/\ tablet0.tablet.state = "RUNNING"
        /\ \/ tablet'.replica_id # tablet.replica_id
           \/ tablet'.cooldown_meta_id # tablet.cooldown_meta_id
           \/ tablet'.delete_bitmap # tablet.delete_bitmap
           \/ tablet'.rowsets # tablet.rowsets
           \/ tablet'.cumulative_layer_point # tablet.cumulative_layer_point)
          => (HoldsSevenLocks(locks) /\ HoldsSevenLocks(locks'))]_vars

\* ---------------------------------------------------------------- C30
\* Every staged .binlog / .binlog-index file is under <tablet_dir>/_binlog with
\* the staged content.
BinlogFilesPlaced ==
    \A f \in FileNames(clone_dir) :
       f[3] \in {"binlog", "binlog-index"} =>
          /\ RenamedBinlog(f) \in FileNames(tablet_dir)
          /\ tablet_dir.files[RenamedBinlog(f)].md5 = clone_dir.files[f].md5

\* C30: ingest_binlog_metas is called only when the link loop has handled every
\* staged file, every staged binlog file is in place, and the task holds the
\* seven tablet locks.
C30_IngestAfterLinksUnderLocks ==
    [][Appended("ingest_binlog_metas") =>
          /\ clone_file_names = {}
          /\ IsOk(fstatus)
          /\ BinlogFilesPlaced
          /\ HoldsSevenLocks(locks)]_vars

\* ---------------------------------------------------------------- C31
\* The finish step works on a staging directory that holds a .binlog or a
\* .binlog-index file the tablet directory did not list, while
\* rowset_binlog_metas.pb was absent or empty.
BinlogWithoutManifest ==
    /\ ~contain_binlog
    /\ PB \in FileNames(clone_dir) => clone_dir.files[PB].size = 0
    /\ \E f \in FileNames(clone_dir) :
          f[3] \in {"binlog", "binlog-index"} /\ f \notin FileNames(tablet0.tablet_dir)

\* C31: when a .binlog or .binlog-index file is staged and the manifest is absent
\* or empty, the finish step ends with an error, no merge has run, and none of
\* the files it linked stays in the tablet directory.
C31_BinlogWithoutManifestFails ==
    /\ [](pc = "finish_exit" /\ BinlogWithoutManifest =>
             (~IsOk(fstatus) /\ merged = "none"))
    /\ [][(pc = "finish_exit" /\ BinlogWithoutManifest) =>
             /\ pc' = "do_clone_exit"
             /\ FileNames(tablet_dir') \cap linked_success_files = {}]_vars

\* ---------------------------------------------------------------- C32
\* C32: a successful incremental merge adds exactly one cloned rowset for each
\* version up to the merge's version that the tablet does not cover when the
\* merge runs under the locks; every rowset the tablet had then, a version
\* published since the first computation included, is kept, and no rowset is
\* added that overlaps one of them.
C32_RecomputedUnderLock ==
    [][(pc = "merge" /\ allow_incremental_clone /\ IsOk(fstatus')) =>
          LET inside == Uncovered(tablet.rowsets, specified_version)
              added == tablet'.rowsets \ tablet.rowsets
          IN /\ added = { << i, i, "cloned" >> : i \in inside }
             /\ tablet.rowsets \subseteq tablet'.rowsets
             /\ \A v \in tablet.rowsets, w \in added : w[2] < v[1] \/ v[2] < w[1]]_vars

\* Versions 5 and 6 were missing when the task computed them first; version 5 was
\* published before the locks were taken; the merge added version 6 only.
C32_Witness ==
    /\ pc = "finish_exit" /\ merged = "incremental" /\ IsOk(fstatus)
    /\ missed_versions = { <<5, 5>>, <<6, 6>> }
    /\ << 5, 5, "published" >> \in tablet.rowsets
    /\ << 6, 6, "cloned" >> \in tablet.rowsets
    /\ << 5, 5, "cloned" >> \notin tablet.rowsets

\* ---------------------------------------------------------------- C33
\* C33: a full merge on local rowsets of which one starts at or below the cloned
\* max version M and ends above it ends with an internal error before it touched
\* the tablet, and a full merge ends that way in no other case; otherwise, when
\* it succeeds, the rowsets it removed are exactly the local ones that end at or
\* below M, the rowsets it added are exactly one per rowset meta of the cloned
\* header, and every local rowset that starts above M is still there; when it
\* fails otherwise, no rowset is removed or added.
C33_FullMergePartition ==
    [][(pc = "merge" /\ ~allow_incremental_clone) =>
          LET cm == cloned_tablet_meta'
              M == ClonedMaxEnd(cm)
              removed == tablet.rowsets \ tablet'.rowsets
              added == tablet'.rowsets \ tablet.rowsets
          IN /\ merged' = "full"
             /\ Straddles(tablet.rowsets, cm) <=>
                   (fstatus' = "INTERNAL_ERROR" /\ tablet' = tablet)
             /\ IF IsOk(fstatus')
                THEN /\ removed = { v \in tablet.rowsets : v[2] <= M }
                     /\ added = { << m[1], m[2], "cloned" >> : m \in cm }
                     /\ \A v \in tablet.rowsets : v[1] > M => v \in tablet'.rowsets
                ELSE removed = {} /\ added = {}]_vars

\* Local [0-1],[2-3],[5-8], cloned header [0-4]: [0-1] and [2-3] are gone, [0-4] is
\* there, [5-8] is kept.
C33_Witness ==
    /\ pc = "finish_exit" /\ merged = "full" /\ IsOk(fstatus)
    /\ tablet0.tablet.rowsets = L4
    /\ cloned_tablet_meta = { <<0, 4>> }
    /\ tablet.rowsets = { <<0, 4, "cloned">>, <<5, 8, "local">> }

\* ---------------------------------------------------------------- C34
\* C34: a successful full merge leaves the tablet with a newly generated
\* cooldown_meta_id, neither the cloned header's nor the one it had, when the
\* tablet's cooldown conf names the local replica, and with the cloned header's
\* cooldown_meta_id otherwise; an incremental merge does not change it.
C34_CooldownMetaId ==
    [][pc = "merge" =>
          IF allow_incremental_clone
          THEN tablet'.cooldown_meta_id = tablet.cooldown_meta_id
          ELSE IsOk(fstatus') =>
                  IF tablet.cooldown_replica_id = tablet.replica_id
                  THEN /\ tablet'.cooldown_meta_id = "gen_uid"
                       /\ tablet'.cooldown_meta_id \notin {"cloned", tablet.cooldown_meta_id}
                  ELSE tablet'.cooldown_meta_id = "cloned"]_vars

\* The local replica, replica 1 raised to the requested 2, is the cooldown replica:
\* after the full merge its cooldown_meta_id is a new one.
C34_Witness ==
    /\ pc = "finish_exit" /\ merged = "full" /\ IsOk(fstatus)
    /\ tablet0.tablet.replica_id = 1
    /\ tablet.replica_id = tablet.cooldown_replica_id
    /\ tablet.cooldown_meta_id = "gen_uid"

\* ---------------------------------------------------------------- C35
\* The files a successful batch request brought: file_list[file_idx .. file_idx' - 1].
FetchedBatch == SubSeq(file_list, file_idx, file_idx' - 1)

\* C35: every batch holds the next files of the list in list order, at least one
\* and at most 64; it took its last file while the files before it added up to
\* less than 64 MiB; it stops before a file only when it holds 64 files, when
\* its size has reached 64 MiB, or when that file is the last of the list; and
\* the last file of a list of two or more files is fetched in a batch of its own.
C35_PackingRule ==
    [][BatchFetched =>
          LET n == Len(FetchedBatch)
          IN /\ 1 <= n /\ n <= BATCH_FILE_NUM
             /\ SumSizes(SubSeq(FetchedBatch, 1, n - 1)) < BATCH_FILE_SIZE
             /\ \A i \in 1..n : Staging'.files[file_list[file_idx + i - 1].name].size
                                   = FetchedBatch[i].size
             /\ file_idx' <= Len(file_list) =>
                   \/ n = BATCH_FILE_NUM
                   \/ SumSizes(FetchedBatch) >= BATCH_FILE_SIZE
                   \/ file_idx' = Len(file_list)
             /\ (file_idx' = Len(file_list) + 1 /\ Len(file_list) >= 2) =>
                   (n = 1 /\ file_idx = Len(file_list))]_vars

\* 66 segment files of 1 KiB: the first batch brought 64 of them.
C35_Witness ==
    /\ pc = "download_batch" /\ Len(file_list) = 66 /\ file_idx = BATCH_FILE_NUM + 1
    /\ Cardinality(FileNames(Staging)) = BATCH_FILE_NUM

\* ---------------------------------------------------------------- C40
\* The names of the entries of a list.
Names(l) == { l[i].name : i \in 1..Len(l) }

\* C40: the batch the loop requests next is never empty and is the run of the list
\* that starts at the first file not yet fetched; a successful request adds to the
\* staging directory exactly the files of its batch, none of which was there, so
\* that the directory holds the files before file_idx, each once; the loop ends
\* with every listed file staged and their sizes added up; on an empty list it
\* ends at once, with no request made, nothing staged and zero bytes copied; and
\* for every list the loop comes to an end.
C40_BatchesPartitionListing ==
    /\ [](pc = "download_batch" /\ file_idx <= Len(file_list) =>
             LET b == NextBatch(file_list, file_idx)
             IN /\ b # << >>
                /\ b = SubSeq(file_list, file_idx, file_idx + Len(b) - 1)
                /\ FileNames(Staging) = Names(SubSeq(file_list, 1, file_idx - 1))
                /\ Cardinality(FileNames(Staging)) = file_idx - 1)
    /\ [][BatchFetched =>
             /\ file_idx' > file_idx
             /\ FileNames(Staging') \ FileNames(Staging) = Names(FetchedBatch)
             /\ Names(FetchedBatch) \cap FileNames(Staging) = {}
             /\ FileNames(Staging) \subseteq FileNames(Staging')]_vars
    /\ [][(pc = "download_batch" /\ pc' = "convert") =>
             /\ file_idx = Len(file_list) + 1
             /\ FileNames(Staging') = Names(file_list)
             /\ copy_size' = SumSizes(file_list)
             /\ attempt'.transfer = OK
             /\ file_list = << >> => (copy_size' = 0 /\ Staging' = Staging
                                      /\ FileNames(Staging') = {})]_vars
    /\ <>(pc # "download_batch")

\* Nine 10 MiB files and the .hdr file: the loop has ended with the ten files
\* staged and 91 MiB copied.
C40_Witness ==
    /\ pc = "convert" /\ attempt.transfer = OK
    /\ Cardinality(FileNames(Staging)) = 10 /\ HDR \in FileNames(Staging)
    /\ copy_size = 91 * MiB

\* ---------------------------------------------------------------- C36
\* The directory holds exactly the files of the list, with the listed content.
HoldsExactly(dir, list) ==
    /\ dir.exists
    /\ FileNames(dir) = Names(list)
    /\ \A i \in 1..Len(list) :
          dir.files[list[i].name] = [size |-> list[i].size, md5 |-> list[i].md5]

\* C36: a transfer, with either strategy, starts on a staging directory that
\* exists and is empty, whatever an earlier peer or an earlier task left there;
\* a transfer that succeeds leaves in it exactly the files its own peer listed,
\* with the listed content; and the directory is not touched between the end of
\* the transfer and the finish step (or the load of the new tablet).
C36_StagingRecreatedPerPeer ==
    /\ [][(pc = "download_begin" /\ pc' \in {"download_file", "download_batch"}) =>
             Staging' = EmptyDir]_vars
    /\ [][(InTransfer /\ pc' = "convert") => HoldsExactly(Staging', file_list)]_vars
    /\ [][(pc \in {"convert", "release", "mads_return"}) =>
             UNCHANGED << tablet_dir, clone_dir >>]_vars

\* The transfer from peer 1 failed after its make_snapshot had succeeded; the
\* transfer from peer 2 has brought the two files peer 2 listed, and the staging
\* directory holds these two.
C36_Witness ==
    /\ pc = "convert" /\ src = 2 /\ attempt.peer = 2 /\ IsOk(attempt.transfer)
    /\ \E i \in MakeCalls : calls[i][2] = 1 /\ IsOk(calls[i][4])
    /\ Staging = PutFile(PutFile(EmptyDir, D5, [size |-> 10 * MiB, md5 |-> 2]),
                         D6, [size |-> 10 * MiB, md5 |-> 1])

\* ---------------------------------------------------------------- C37
\* C37: the allow_incremental_clone the task holds after a successful make_snapshot
\* is the one of that peer's result, false when the result does not have it,
\* whatever an earlier peer answered; nothing else changes it; and the merge is
\* incremental exactly when it is true.
C37_ModeFromDownloadedPeer ==
    /\ [][(pc = "make_snapshot_result") =>
             allow_incremental_clone' = (snapshot_result = "true")]_vars
    /\ [][allow_incremental_clone' # allow_incremental_clone =>
             pc = "make_snapshot_result"]_vars
    /\ [][(pc = "merge") =>
             merged' = IF allow_incremental_clone THEN "incremental" ELSE "full"]_vars

\* Peer 1 allowed an incremental clone and its transfer failed; the result of peer
\* 2 does not have the field, and the task still holds true.
C37_CarriedOver ==
    /\ pc = "make_snapshot_result" /\ src = 2
    /\ snapshot_result = "unset" /\ allow_incremental_clone

\* ---------------------------------------------------------------- C38
\* The latest peer attempt of this task went through: make_snapshot, the transfer
\* and convert_rowset_ids all succeeded.
AttemptSucceeded ==
    /\ attempt.peer \in { calls[i][2] : i \in { j \in MakeCalls : IsOk(calls[j][4]) } }
    /\ IsOk(attempt.make) /\ IsOk(attempt.transfer) /\ IsOk(attempt.convert)

\* C38: _make_and_download_snapshots returns OK only when a peer attempt of this
\* task went through, an empty list of source backends included; the identity
\* rewrite runs only on files this task transferred from a peer whose
\* make_snapshot succeeded; and the finish step, the merge and the load of a new
\* tablet are reached only after such an attempt, whatever an earlier task left
\* in the staging directory.
C38_OnlyOwnDownloadIsMerged ==
    /\ [](pc = "mads_return" => (IsOk(mstatus) <=> AttemptSucceeded))
    /\ [](pc = "convert" => (IsOk(attempt.make) /\ IsOk(attempt.transfer)))
    /\ [](pc \in {"finish_begin", "link", "ingest", "lock", "merge", "load_tablet"} =>
             AttemptSucceeded)
    /\ [](merged # "none" => AttemptSucceeded)

\* The request named no source backend; an earlier task had left a staging
\* directory with a header file: its files were linked and merged.
C38_StaleStagingMerged ==
    /\ pc = "finish_exit" /\ merged = "full" /\ IsOk(fstatus)
    /\ clone_req.src_backends = 0 /\ MakeCalls = {}
    /\ attempt = NoAttempt
    /\ D6 \in FileNames(tablet_dir)

\* C38 for the requests that name at least one source backend.
C38_WithPeers ==
    [](clone_req.src_backends >= 1 =>
          /\ pc = "mads_return" => (IsOk(mstatus) <=> AttemptSucceeded)
          /\ pc = "convert" => (IsOk(attempt.make) /\ IsOk(attempt.transfer))
          /\ pc \in {"finish_begin", "link", "ingest", "lock", "merge", "load_tablet"} =>
                AttemptSucceeded
          /\ merged # "none" => AttemptSucceeded)

\* ---------------------------------------------------------------- C39
\* The positions in the call log of the convert_rowset_ids calls that failed.
FailedConverts == { i \in CallsAt("convert_rowset_ids") : ~IsOk(calls[i][4]) }

\* What holds of every failed convert_rowset_ids call in the log.
AfterFailedConvert ==
    \A i \in FailedConverts :
          /\ IsOk(attempt.make) /\ IsOk(attempt.transfer) /\ ~IsOk(attempt.convert)
          /\ calls[i][2] = src /\ attempt.peer = src
          /\ \A j \in (i + 1)..Len(calls) :
                /\ calls[j][1] \notin {"make_snapshot", "convert_rowset_ids",
                                       "ingest_binlog_metas", "revise"}
                /\ calls[j][1] = "release_snapshot" =>
                      (j = i + 1 /\ calls[j][2] = src /\ calls[j][3] = snapshot_path)
          /\ pc = "release" \/ (Len(calls) > i /\ calls[i + 1][1] = "release_snapshot")
          /\ pending_rs_guards = FALSE
          /\ merged = "none"
          /\ tablet.rowsets = tablet0.tablet.rowsets
          /\ pc \in {"release", "mads_return", "do_clone_exit", "set_tablet_info",
                     "update_visible_version", "done"}
          /\ pc \notin {"release", "mads_return"} =>
                (ret = "INTERNAL_ERROR" /\ exit_path = "convert_rowset_ids")

\* C39: once convert_rowset_ids has failed after a successful transfer, the task
\* leaves with that error: the snapshot of that peer is released, no call to any
\* peer follows except that release, no pending rowset guard is recorded, the
\* finish step, the merge and the load of a new tablet are not reached, and
\* _do_clone returns the error of the conversion.
C39_ConvertFailureReturns == []AfterFailedConvert

\* convert_rowset_ids failed on the first of two peers; the task is over, the
\* snapshot was released and the second peer was never asked.
C39_Witness ==
    /\ pc = "done" /\ FailedConverts # {}
    /\ clone_req.src_backends = 2 /\ src = 1
    /\ Cardinality(MakeCalls) = 1
    /\ Cardinality(CallsAt("release_snapshot")) = 1
    /\ ret = "INTERNAL_ERROR"

====
